---- MODULE Spec2Model ----
(***************************************************************************)
(* Rijksmuseum Explorer: the Linked Art adapter (rijks_api.py) and the     *)
(* maker-name normalisation of the results grid (Home page).               *)
(*                                                                         *)
(* Python str values are TLA+ strings; characters are 1-character strings. *)
(* TLA+ strings are ASCII, so the four non-ASCII characters of the source  *)
(* are written with stand-ins that occur nowhere else in the model:        *)
(*   e-acute "~"   a-grave "@"   e-grave "^"   en-dash "_"                 *)
(* A Python Optional[T] is the sequence <<>> (None) or <<v>>.              *)
(***************************************************************************)
EXTENDS Integers, Sequences, FiniteSets, TLC

VARIABLES
    url, width, normalized, renormalized,   \* _normalize_iiif_image_url: input, result, result of a second pass
    raw_maker, maker,                       \* results grid: the record's maker, the name shown on the card
    raw_object, mapped,                     \* _map_linked_art_to_legacy_dict: the Linked Art record, the outcome of the call
    artist, attribution_tag,                \* _classify_attribution(raw_object, artist): its argument, its outcome
    dating, year,                           \* extract_year(dating): its argument, its result
    query, page_size, sort, page,           \* search_artworks: its arguments
    pc,                                     \* search_artworks: where the call stands
    asked,                                  \* _search_ids: the fields queried so far, each with its response
    pids,                                   \* _search_ids: ids collected
    fetch_log,                              \* _fetch_linked_art_json: how the fetch of each pid ended
    raw_objects, map_log, mapped_list,      \* search_artworks: records fetched, page responses of each mapping, records mapped
    outcome,                                \* search_artworks: what the call returned or raised
    image_strings, image_raw, image_found,  \* _deep_find_iiif_image_url: the strings of the record, the record, the result
    open_page,                              \* the selection pages: the page the browser shows
    favorites, notes, detail_art_id,        \* st.session_state of the selection pages
    compare_candidates, cmp_limit_warning, cmp_key_generation,
    fav_file, notes_file,                   \* FAV_FILE and NOTES_FILE on disk
    analytics_session_id, analytics_once,   \* analytics: _analytics_session_id and the _analytics_once:: flags of the session
    confirm_clear_analytics,                \* Statistics: the first of the two clear buttons was pressed
    analytics_file, written, uuids          \* ANALYTICS_FILE, the records written so far, the uuids drawn so far

iiifVars == <<url, width, normalized, renormalized>>
makerVars == <<raw_maker, maker>>
mapVars == <<raw_object, mapped>>
classifyVars == <<artist, attribution_tag>>
yearVars == <<dating, year>>
searchVars == <<query, page_size, sort, page, pc, asked, pids, fetch_log,
                raw_objects, map_log, mapped_list, outcome>>
findVars == <<image_strings, image_raw, image_found>>
selectionVars == <<open_page, favorites, notes, fav_file, notes_file, detail_art_id, compare_candidates, cmp_limit_warning, cmp_key_generation>>
analyticsVars == <<analytics_session_id, analytics_once, confirm_clear_analytics, analytics_file, written, uuids>>
vars == <<url, width, normalized, renormalized, raw_maker, maker,
          raw_object, mapped, artist, attribution_tag, dating, year,
          query, page_size, sort, page, pc, asked, pids, fetch_log,
          raw_objects, map_log, mapped_list, outcome,
          image_strings, image_raw, image_found,
          open_page, favorites, notes, fav_file, notes_file, detail_art_id, compare_candidates, cmp_limit_warning, cmp_key_generation,
          analytics_session_id, analytics_once, confirm_clear_analytics, analytics_file, written, uuids>>

None == <<>>
Some(v) == <<v>>

(***************************************************************************)
(* Python str primitives                                                   *)
(***************************************************************************)
Min(S) == CHOOSE x \in S : \A y \in S : x <= y
Max(S) == 0 - Min({0 - x : x \in S})

\* s[i-1:j] with the clamping of a Python slice (1 <= i)
Sub(s, i, j) ==
    IF i > j \/ i > Len(s) THEN ""
    ELSE SubSeq(s, i, IF j > Len(s) THEN Len(s) ELSE j)

Ch(s, i) == Sub(s, i, i)

\* str.isspace for one character (also the regex class \s)
IsSpace(c) == c \in {" ", "\t", "\n", "\r"}

RECURSIVE LStrip(_)
LStrip(s) == IF s # "" /\ IsSpace(Head(s)) THEN LStrip(Tail(s)) ELSE s

RECURSIVE RStrip(_)
RStrip(s) == IF s # "" /\ IsSpace(Ch(s, Len(s))) THEN RStrip(Sub(s, 1, Len(s) - 1)) ELSE s

\* str.strip()
Strip(s) == RStrip(LStrip(s))

\* str.rstrip(c) for a single character c
RECURSIVE RStripChar(_, _)
RStripChar(s, c) ==
    IF s # "" /\ Ch(s, Len(s)) = c THEN RStripChar(Sub(s, 1, Len(s) - 1), c) ELSE s

StartsWith(s, p) == Len(p) <= Len(s) /\ Sub(s, 1, Len(p)) = p
EndsWith(s, p) == Len(p) <= Len(s) /\ Sub(s, Len(s) - Len(p) + 1, Len(s)) = p

\* str.find(p) + 1: the 1-based index of the first occurrence of p, 0 if none
Find(s, p) ==
    LET hits == {i \in 1..(Len(s) - Len(p) + 1) : Sub(s, i, i + Len(p) - 1) = p}
    IN  IF hits = {} THEN 0 ELSE Min(hits)

\* p in s
Contains(s, p) == \E i \in 1..(Len(s) - Len(p) + 1) : Sub(s, i, i + Len(p) - 1) = p

UpperCase == <<"A","B","C","D","E","F","G","H","I","J","K","L","M",
               "N","O","P","Q","R","S","T","U","V","W","X","Y","Z">>
LowerCase == <<"a","b","c","d","e","f","g","h","i","j","k","l","m",
               "n","o","p","q","r","s","t","u","v","w","x","y","z">>

UpperSet == {UpperCase[i] : i \in 1..26}
LowerSet == {LowerCase[i] : i \in 1..26}
ToLower == [c \in UpperSet |-> LowerCase[CHOOSE i \in 1..26 : UpperCase[i] = c]]
ToUpper == [c \in LowerSet |-> UpperCase[CHOOSE i \in 1..26 : LowerCase[i] = c]]

LowerChar(c) == IF c \in UpperSet THEN ToLower[c] ELSE c

\* str.lower()
RECURSIVE Lower(_)
Lower(s) == IF s = "" THEN "" ELSE LowerChar(Head(s)) \o Lower(Tail(s))

Digits == <<"0","1","2","3","4","5","6","7","8","9">>

\* str(n) for a non-negative int, as an f-string formats it
RECURSIVE IntToStr(_)
IntToStr(n) ==
    IF n < 10 THEN Digits[n + 1]
    ELSE IntToStr(n \div 10) \o Digits[(n % 10) + 1]

(***************************************************************************)
(* _normalize_iiif_image_url                                               *)
(***************************************************************************)
IIIFSuffix(w) == "/full/" \o IntToStr(w) \o ",/0/default.jpg"

NormalizeKeepsFullSegment(u0, w) ==
    LET u == Strip(u0)
    IN  IF EndsWith(u, "/info.json")
        THEN Sub(u, 1, Len(u) - Len("/info.json")) \o IIIFSuffix(w)
        ELSE RStripChar(u, "/") \o IIIFSuffix(w)

_normalize_iiif_image_url(u0, w) ==
    LET u == Strip(u0)
    IN  IF EndsWith(u, "/info.json")
        THEN Sub(u, 1, Len(u) - Len("/info.json")) \o IIIFSuffix(w)
        ELSE IF Contains(u, "/full/")
        THEN Sub(u, 1, Find(u, "/full/") - 1) \o IIIFSuffix(w)
        ELSE RStripChar(u, "/") \o IIIFSuffix(w)

\* Pieces of IIIF URLs from which the inputs are assembled
UrlPieces == {"https://x", "/y", "/", "/full", "/full/", "/info.json", " ", "max"}

\* Longest input, in pieces
MaxPieces == 3

RECURSIVE UrlsOf(_)
UrlsOf(n) ==
    IF n = 0 THEN {""}
    ELSE LET shorter == UrlsOf(n - 1)
         IN  shorter \cup {u \o p : u \in shorter, p \in UrlPieces}

\* width=600 (JSON deep search) and width=900 (HTML fallback, default)
Widths == {600, 900}

IIIFIdle == url = None /\ width = None /\ normalized = None /\ renormalized = None

IIIFInit ==
    /\ url \in UrlsOf(MaxPieces)
    /\ width \in Widths
    /\ normalized = None
    /\ renormalized = None

Normalize ==
    /\ normalized = None
    /\ normalized' = Some(_normalize_iiif_image_url(url, width))
    /\ UNCHANGED <<url, width, renormalized, makerVars, mapVars, classifyVars, yearVars, searchVars, findVars, selectionVars, analyticsVars>>

NormalizeAgain ==
    /\ normalized # None
    /\ renormalized = None
    /\ renormalized' = Some(_normalize_iiif_image_url(normalized[1], width))
    /\ UNCHANGED <<url, width, normalized, makerVars, mapVars, classifyVars, yearVars, searchVars, findVars, selectionVars, analyticsVars>>

IIIFNext == Normalize \/ NormalizeAgain

(***************************************************************************)
(* Results grid: maker name shown on a card                                *)
(***************************************************************************)
UnknownTokens == {"", "unknown", "unknown artist", "onbekend",
                  "onbekende kunstenaar", "n/a", "niet vermeld"}
AnonymousTokens == {"anonymous", "anoniem"}

MakerCaseSensitive(rm) ==
    LET maker_norm == Strip(IF rm = None THEN "" ELSE rm[1])
    IN  IF maker_norm \in UnknownTokens THEN "Unknown artist"
        ELSE IF maker_norm \in AnonymousTokens THEN "anonymous"
        ELSE maker_norm

\* rm is art.get("principalOrFirstMaker", ""): None or a string
NormalizeMaker(rm) ==
    LET maker_norm == Strip(IF rm = None THEN "" ELSE rm[1])
    IN  IF Lower(maker_norm) \in UnknownTokens THEN "Unknown artist"
        ELSE IF Lower(maker_norm) \in AnonymousTokens THEN "anonymous"
        ELSE maker_norm

UpperChar(c) == IF c \in LowerSet THEN ToUpper[c] ELSE c

RECURSIVE Upper(_)
Upper(s) == IF s = "" THEN "" ELSE UpperChar(Head(s)) \o Upper(Tail(s))

Capitalize(s) == IF s = "" THEN "" ELSE UpperChar(Head(s)) \o Tail(s)

\* Names as the records carry them, before casing and padding
MakerNames == UnknownTokens \cup AnonymousTokens \cup
    {"johannes vermeer", "unknown master", "anoniem meester", "niet", "a", "jan steen"}

\* Longest run of whitespace on either side of a name
MaxPad == 1

RECURSIVE PadsOf(_)
PadsOf(n) ==
    IF n = 0 THEN {""}
    ELSE LET shorter == PadsOf(n - 1)
         IN  shorter \cup {p \o c : p \in shorter, c \in {" ", "\t"}}

MakerInputs ==
    {None} \cup
    {Some(l \o c \o r) :
        l \in PadsOf(MaxPad), r \in PadsOf(MaxPad),
        c \in UNION {{n, Capitalize(n), Upper(n)} : n \in MakerNames}}

MakerIdle == raw_maker = None /\ maker = None

MakerInit ==
    /\ raw_maker \in MakerInputs
    /\ maker = None

RenderMaker ==
    /\ maker = None
    /\ maker' = Some(NormalizeMaker(raw_maker))
    /\ UNCHANGED <<raw_maker, iiifVars, mapVars, classifyVars, yearVars, searchVars, findVars, selectionVars, analyticsVars>>

MakerNext == RenderMaker

(***************************************************************************)
(* JSON values (json.loads output): tagged records.  A dict is the         *)
(* sequence of its <<key, value>> pairs in insertion order.                *)
(***************************************************************************)
JNull == [t |-> "null"]
JBool(b) == [t |-> "bool", b |-> b]
JNum(n) == [t |-> "num", n |-> n]
JStr(s) == [t |-> "str", s |-> s]
JList(xs) == [t |-> "list", xs |-> xs]
JDict(kv) == [t |-> "dict", kv |-> kv]

IsStr(v) == v.t = "str"
IsList(v) == v.t = "list"
IsDict(v) == v.t = "dict"

\* dict.get(k): the value under k, None (null) when absent
Get(d, k) ==
    LET hit == {i \in 1..Len(d.kv) : d.kv[i][1] = k}
    IN  IF hit = {} THEN JNull ELSE d.kv[Min(hit)][2]

\* dict.values(), in insertion order
Values(d) == [i \in 1..Len(d.kv) |-> d.kv[i][2]]

\* bool(v)
Truthy(v) ==
    CASE v.t = "null" -> FALSE
      [] v.t = "bool" -> v.b
      [] v.t = "num"  -> v.n # 0
      [] v.t = "str"  -> v.s # ""
      [] v.t = "list" -> v.xs # <<>>
      [] v.t = "dict" -> v.kv # <<>>

\* v or []
OrEmptyList(v) == IF Truthy(v) THEN v ELSE JList(<<>>)

\* iter(v): a str yields its characters, a dict its keys; None, bool and
\* numbers are not iterable (TypeError)
Iterable(v) == v.t \in {"str", "list", "dict"}
Items(v) ==
    CASE v.t = "list" -> v.xs
      [] v.t = "str"  -> [i \in 1..Len(v.s) |-> JStr(Ch(v.s, i))]
      [] v.t = "dict" -> [i \in 1..Len(v.kv) |-> JStr(v.kv[i][1])]

\* isinstance(v, str) and v.strip()
IsNonBlankStr(v) == IsStr(v) /\ Strip(v.s) # ""

(***************************************************************************)
(* _extract_access_point_url                                               *)
(***************************************************************************)
RECURSIVE APWalk(_), APWalkSeq(_)
APWalk(obj) ==
    IF IsDict(obj) THEN
        LET ap == Get(obj, "access_point")
            own == IF IsList(ap) /\ ap.xs # <<>> /\ IsDict(ap.xs[1])
                      /\ IsNonBlankStr(Get(ap.xs[1], "id"))
                   THEN Some(Strip(Get(ap.xs[1], "id").s))
                   ELSE None
        IN  IF own # None THEN own ELSE APWalkSeq(Values(obj))
    ELSE IF IsList(obj) THEN APWalkSeq(obj.xs)
    ELSE None
APWalkSeq(xs) ==
    IF xs = <<>> THEN None
    ELSE LET hit == APWalk(Head(xs))
         IN  IF hit # None THEN hit ELSE APWalkSeq(Tail(xs))

_extract_access_point_url(raw) == APWalk(raw)

(***************************************************************************)
(* _deep_find_iiif_image_url                                               *)
(***************************************************************************)
\* walk: every string that starts with "http", in document order
RECURSIVE HttpStrings(_), HttpStringsSeq(_)
HttpStrings(node) ==
    IF IsDict(node) THEN HttpStringsSeq(Values(node))
    ELSE IF IsList(node) THEN HttpStringsSeq(node.xs)
    ELSE IF IsStr(node) /\ StartsWith(node.s, "http") THEN <<node.s>>
    ELSE <<>>
HttpStringsSeq(xs) ==
    IF xs = <<>> THEN <<>>
    ELSE HttpStrings(Head(xs)) \o HttpStringsSeq(Tail(xs))

ImageExtensions == {".jpg", ".jpeg", ".png", ".webp", ".tif", ".tiff"}

HasImageExtension(u) == LET lower == Lower(u) IN \E ext \in ImageExtensions : EndsWith(lower, ext)
LooksIIIF(u) == LET lower == Lower(u) IN Contains(lower, "iiif") /\ Contains(lower, "rijksmuseum")

\* the first element of the sequence that satisfies P, None when there is none
FirstWhere(xs, P(_)) ==
    LET hit == {i \in 1..Len(xs) : P(xs[i])}
    IN  IF hit = {} THEN None ELSE Some(xs[Min(hit)])

DeepFindIIIFFirst(raw) ==
    LET candidates == HttpStrings(raw)
        by_iiif == FirstWhere(candidates, LooksIIIF)
    IN  IF by_iiif # None THEN by_iiif
        ELSE FirstWhere(candidates, HasImageExtension)

_deep_find_iiif_image_url(raw) ==
    LET candidates == HttpStrings(raw)
        by_ext == FirstWhere(candidates, HasImageExtension)
    IN  IF by_ext # None THEN by_ext
        ELSE FirstWhere(candidates, LooksIIIF)

(***************************************************************************)
(* _extract_principal_maker                                                *)
(***************************************************************************)
\* labels add_candidate drops
IgnoredLabels == {"unknown", "unknown artist", "onbekend", "onbekende kunstenaar"}

add_candidate(candidates, name) ==
    IF ~IsStr(name) THEN candidates
    ELSE LET n == Strip(name.s)
         IN  IF n = "" THEN candidates
             ELSE IF Lower(n) \in IgnoredLabels THEN candidates
             ELSE IF \E i \in 1..Len(candidates) : candidates[i] = n THEN candidates
             ELSE Append(candidates, n)

\* for ident in ids: the content of each dict entry, when a string
RECURSIVE AddContents(_, _)
AddContents(candidates, ids) ==
    IF ids = <<>> THEN candidates
    ELSE LET ident == Head(ids)
             next == IF IsDict(ident) THEN add_candidate(candidates, Get(ident, "content"))
                     ELSE candidates
         IN  AddContents(next, Tail(ids))

scan_agent(candidates, agent) ==
    IF ~IsDict(agent) THEN candidates
    ELSE LET ids == OrEmptyList(Get(agent, "identified_by"))
             c0 == IF IsList(ids) THEN AddContents(candidates, ids.xs) ELSE candidates
             c1 == add_candidate(c0, Get(agent, "_label"))
             c2 == add_candidate(c1, Get(agent, "label"))
         IN  add_candidate(c2, Get(agent, "name"))

RECURSIVE ScanAgents(_, _)
ScanAgents(candidates, agents) ==
    IF agents = <<>> THEN candidates
    ELSE ScanAgents(scan_agent(candidates, Head(agents)), Tail(agents))

RECURSIVE scan_produced(_, _), ScanProducedSeq(_, _)
scan_produced(candidates, prod) ==
    IF IsDict(prod) THEN
        LET got == OrEmptyList(Get(prod, "carried_out_by"))
            carried == IF IsList(got) THEN got.xs ELSE <<got>>
            c0 == ScanAgents(candidates, carried)
            parts == OrEmptyList(Get(prod, "part"))
        IN  IF IsList(parts) THEN ScanProducedSeq(c0, parts.xs) ELSE c0
    ELSE IF IsList(prod) THEN ScanProducedSeq(candidates, prod.xs)
    ELSE candidates
ScanProducedSeq(candidates, ps) ==
    IF ps = <<>> THEN candidates
    ELSE ScanProducedSeq(scan_produced(candidates, Head(ps)), Tail(ps))

_extract_principal_maker(raw) ==
    LET candidates == scan_produced(<<>>, Get(raw, "produced_by"))
    IN  IF candidates # <<>> THEN candidates[1] ELSE "Unknown artist"

(***************************************************************************)
(* _collect_attribution_texts, _classify_attribution                        *)
(* A call that raises returns [raised |-> TRUE].                           *)
(***************************************************************************)
\* for item in items: the stripped content of each dict entry, when non-blank
RECURSIVE PullItems(_)
PullItems(items) ==
    IF items = <<>> THEN <<>>
    ELSE LET item == Head(items)
             c == IF IsDict(item) THEN Get(item, "content") ELSE JNull
         IN  (IF IsNonBlankStr(c) THEN <<Strip(c.s)>> ELSE <<>>) \o PullItems(Tail(items))

\* pull(obj): the loop "for item in (obj.get("referred_to_by") or [])"
pull(obj) ==
    IF ~IsDict(obj) THEN [raised |-> FALSE, texts |-> <<>>]
    ELSE LET refs == OrEmptyList(Get(obj, "referred_to_by"))
         IN  IF ~Iterable(refs) THEN [raised |-> TRUE, texts |-> <<>>]
             ELSE [raised |-> FALSE, texts |-> PullItems(Items(refs))]

RECURSIVE PullSeq(_)
PullSeq(ps) ==
    IF ps = <<>> THEN [raised |-> FALSE, texts |-> <<>>]
    ELSE LET here == pull(Head(ps))
         IN  IF here.raised THEN here
             ELSE LET rest == PullSeq(Tail(ps))
                  IN  [raised |-> rest.raised, texts |-> here.texts \o rest.texts]

_collect_attribution_texts(raw) ==
    LET produced_by == Get(raw, "produced_by")
    IN  IF ~IsDict(produced_by) THEN [raised |-> FALSE, texts |-> <<>>]
        ELSE LET own == pull(produced_by)
                 parts == OrEmptyList(Get(produced_by, "part"))
             IN  IF own.raised THEN own
                 ELSE IF ~IsList(parts) THEN own
                 ELSE LET rest == PullSeq(parts.xs)
                      IN  [raised |-> rest.raised, texts |-> own.texts \o rest.texts]

\* " | ".join(texts)
RECURSIVE Join(_)
Join(texts) ==
    IF texts = <<>> THEN ""
    ELSE IF Len(texts) = 1 THEN texts[1]
    ELSE texts[1] \o " | " \o Join(Tail(texts))

AttributedPhrases == {"attributed to", "toegeschreven aan", "zugeschrieben", "attribu~ @"}
WorkshopPhrases == {"workshop of", "atelier van", "werkplaats", "atelier de"}
CirclePhrases == {"circle of", "kring van", "school of", "navolger", "follower of", "cercle de"}
AfterPhrases == {"after ", "naar ", "nach ", "d'apr^s", "copy after", "kopie naar"}
DirectPhrases == {"painter:", "schilder:", "artist:", "gemaakt door", "door "}

AnyIn(phrases, texts) == \E w \in phrases : Contains(texts, w)

TagDirectFirst(texts) ==
    IF AnyIn(DirectPhrases, texts) THEN "direct"
    ELSE IF AnyIn(AttributedPhrases, texts) THEN "attributed"
    ELSE IF AnyIn(WorkshopPhrases, texts) THEN "workshop"
    ELSE IF AnyIn(CirclePhrases, texts) THEN "circle"
    ELSE IF AnyIn(AfterPhrases, texts) THEN "after"
    ELSE "attributed"

TagDefaultsDirect(texts) ==
    IF AnyIn(AttributedPhrases, texts) THEN "attributed"
    ELSE IF AnyIn(WorkshopPhrases, texts) THEN "workshop"
    ELSE IF AnyIn(CirclePhrases, texts) THEN "circle"
    ELSE IF AnyIn(AfterPhrases, texts) THEN "after"
    ELSE "direct"

\* the tag once the name was found in the haystack
TagOf(texts) ==
    IF AnyIn(AttributedPhrases, texts) THEN "attributed"
    ELSE IF AnyIn(WorkshopPhrases, texts) THEN "workshop"
    ELSE IF AnyIn(CirclePhrases, texts) THEN "circle"
    ELSE IF AnyIn(AfterPhrases, texts) THEN "after"
    ELSE IF AnyIn(DirectPhrases, texts) THEN "direct"
    ELSE "attributed"

ClassifyWithoutSentinel(raw, artist_name) ==
    LET got == _collect_attribution_texts(raw)
        texts == Lower(Join(got.texts))
    IN  IF got.raised THEN [raised |-> TRUE, tag |-> ""]
        ELSE IF texts = "" \/ ~Contains(texts, Lower(artist_name))
        THEN [raised |-> FALSE, tag |-> "unknown"]
        ELSE [raised |-> FALSE, tag |-> TagOf(texts)]

ClassifyWithoutNameCheck(raw, artist_name) ==
    IF artist_name = "" \/ artist_name = "Unknown artist"
    THEN [raised |-> FALSE, tag |-> "unknown"]
    ELSE LET got == _collect_attribution_texts(raw)
             texts == Lower(Join(got.texts))
         IN  IF got.raised THEN [raised |-> TRUE, tag |-> ""]
             ELSE IF texts = "" THEN [raised |-> FALSE, tag |-> "unknown"]
             ELSE [raised |-> FALSE, tag |-> TagOf(texts)]

_classify_attribution(raw, artist_name) ==
    IF artist_name = "" \/ artist_name = "Unknown artist"
    THEN [raised |-> FALSE, tag |-> "unknown"]
    ELSE LET name == Lower(artist_name)
             got == _collect_attribution_texts(raw)
             texts == Lower(Join(got.texts))
         IN  IF got.raised THEN [raised |-> TRUE, tag |-> ""]
             ELSE IF texts = "" \/ ~Contains(texts, name)
             THEN [raised |-> FALSE, tag |-> "unknown"]
             ELSE [raised |-> FALSE, tag |-> TagOf(texts)]

(***************************************************************************)
(* Regular expressions of the URL and HTML helpers, as re.search runs      *)
(* them: leftmost match, greedy quantifiers, backtracking.                 *)
(***************************************************************************)
DigitSet == {Digits[i] : i \in 1..10}
IsDigit(c) == c \in DigitSet
IsUpper(c) == c \in UpperSet
IsLetter(c) == c \in UpperSet \/ c \in LowerSet
\* \w (the en-dash stand-in "_" is not a word character)
IsWord(c) == IsLetter(c) \/ IsDigit(c)
IsHexLower(c) == IsDigit(c) \/ c \in {"a", "b", "c", "d", "e", "f"}

\* the first index >= k whose character does not satisfy P; Len(s) + 1 if none
RunEnd(s, k, P(_)) ==
    Min({i \in k..(Len(s) + 1) : i = Len(s) + 1 \/ ~P(Ch(s, i))})

AllIn(s, from, to, P(_)) == \A i \in from..to : P(Ch(s, i))

\* int(s) for a string of decimal digits
RECURSIVE StrToInt(_)
StrToInt(s) ==
    IF s = "" THEN 0
    ELSE 10 * StrToInt(Sub(s, 1, Len(s) - 1))
         + (CHOOSE d \in 0..9 : Digits[d + 1] = Ch(s, Len(s)))

\* _clean_object_page_url: re.sub(r"--[a-f0-9]{10,}$", "", url); url is stripped
_clean_object_page_url(u) ==
    LET hits == {i \in 1..(Len(u) - 1) :
                    /\ Sub(u, i, i + 1) = "--"
                    /\ Len(u) - (i + 1) >= 10
                    /\ AllIn(u, i + 2, Len(u), IsHexLower)}
    IN  IF hits = {} THEN u ELSE Sub(u, 1, Min(hits) - 1)

IsCodeChar(c) == IsUpper(c) \/ IsDigit(c) \/ c = "-"

\* lengths n of [A-Z0-9-]+? after position p that are followed by --, / or the end
CodeLengths(u, p) ==
    {n \in 1..(Len(u) - p + 1) :
        /\ AllIn(u, p, p + n - 1, IsCodeChar)
        /\ \/ p + n = Len(u) + 1
           \/ Ch(u, p + n) = "/"
           \/ Sub(u, p + n, p + n + 1) = "--"}

\* re.search(r"/object/(SK-[A-Z0-9-]+?)(?:--|/|$)", url)
_extract_object_number_from_access_point(u) ==
    LET lead == "/object/SK-"
        hits == {p \in 1..Len(u) :
                    /\ Sub(u, p, p + Len(lead) - 1) = lead
                    /\ CodeLengths(u, p + Len(lead)) # {}}
    IN  IF hits = {} THEN None
        ELSE LET p == Min(hits) + Len(lead)
             IN  Some("SK-" \o Sub(u, p, p + Min(CodeLengths(u, p)) - 1))

IsQuote(c) == c \in {"\"", "'"}
NotQuote(c) == ~IsQuote(c)

\* where https?:// matched at p ends (the index after it), 0 when it does not match
SchemeEnd(low, p) ==
    IF Sub(low, p, p + 7) = "https://" THEN p + 8
    ELSE IF Sub(low, p, p + 6) = "http://" THEN p + 7
    ELSE 0

\* the indexes b at which `tail` starts inside the quote-free run that begins
\* at e, with an "iiif" between e and b
IIIFTails(low, e, tail) ==
    LET stop == RunEnd(low, e, NotQuote)
    IN  {b \in e..(stop - Len(tail)) :
            /\ Sub(low, b, b + Len(tail) - 1) = tail
            /\ \E a \in e..(b - 4) : Sub(low, a, a + 3) = "iiif"}

\* _extract_iiif_from_html (flags=re.I: matched on the lower-cased text)
_extract_iiif_from_html(html) ==
    LET low == Lower(html)
        starts == {p \in 1..Len(html) : SchemeEnd(low, p) # 0}
        \* https?://[^"']*iiif[^"']*/info\.json
        info == {p \in starts : IIIFTails(low, SchemeEnd(low, p), "/info.json") # {}}
        \* https?://[^"']*iiif[^"']*/full/[^"']+
        full == {p \in starts :
                    \E b \in IIIFTails(low, SchemeEnd(low, p), "/full/") :
                        b + Len("/full/") < RunEnd(low, SchemeEnd(low, p), NotQuote)}
    IN  IF info # {}
        THEN LET p == Min(info)
                 b == Max(IIIFTails(low, SchemeEnd(low, p), "/info.json"))
             IN  Some(Sub(html, p, b + Len("/info.json") - 1))
        ELSE IF full # {}
        THEN LET p == Min(full)
             IN  Some(Sub(html, p, RunEnd(low, SchemeEnd(low, p), NotQuote) - 1))
        ELSE None

(***************************************************************************)
(* _extract_artist_from_object_html                                        *)
(***************************************************************************)
\* [^<\n\r]
IsNameChar(c) == c \notin {"<", "\n", "\r"}
\* [a-z\s-] under re.IGNORECASE
IsRoleChar(c) == IsLetter(c) \/ IsSpace(c) \/ c = "-"
\* \b before a letter at i
WordStart(s, i) == i = 1 \/ ~IsWord(Ch(s, i - 1))

\* \s*:\s*([^<\n\r]+) from index k.  [matched |-> FALSE], or the name
\* group(2).strip().  The \s* after the colon first takes the whole run of
\* whitespace; when no name character follows it gives characters back, and
\* the group is then a piece of that run that starts with a space or a tab.
ColonName(s, k) ==
    LET colon == RunEnd(s, k, IsSpace)
        first == RunEnd(s, colon + 1, IsSpace)
    IN  IF Ch(s, colon) # ":" THEN [matched |-> FALSE, name |-> ""]
        ELSE IF first <= Len(s) /\ IsNameChar(Ch(s, first))
        THEN [matched |-> TRUE,
              name |-> Strip(Sub(s, first, RunEnd(s, first, IsNameChar) - 1))]
        ELSE [matched |-> \E i \in (colon + 1)..(first - 1) : IsNameChar(Ch(s, i)),
              name |-> ""]

\* \b([a-z][a-z\s-]{2,})\s*\(artist\)\s*:\s*([^<\n\r]+): the indexes j of an
\* "(artist)" that a role text precedes and a colon and a name follow
RoleArtistHits(html) ==
    LET low == Lower(html)
    IN  {j \in 1..Len(html) :
            /\ Sub(low, j, j + 7) = "(artist)"
            /\ \E i \in 1..(j - 3) :
                    /\ WordStart(html, i)
                    /\ IsLetter(Ch(html, i))
                    /\ AllIn(html, i + 1, j - 1, IsRoleChar)
            /\ ColonName(html, j + 8).matched}

Roles == {"painter", "artist", "maker", "draftsman", "engraver", "designer"}

\* where a role of Roles that starts at i ends (the index after it), 0 if none does
RoleEnd(low, i) ==
    LET hit == {r \in Roles : Sub(low, i, i + Len(r) - 1) = r}
    IN  IF hit = {} THEN 0 ELSE i + Len(CHOOSE r \in hit : TRUE)

\* \b(painter|artist|maker|draftsman|engraver|designer)\s*:\s*([^<\n\r]+)
RoleHits(html) ==
    LET low == Lower(html)
    IN  {i \in 1..Len(html) :
            /\ WordStart(html, i)
            /\ RoleEnd(low, i) # 0
            /\ ColonName(html, RoleEnd(low, i)).matched}

\* [A-Z][^\n,]{2,}(?:\s+[A-Z][^\n,]{2,})+\s* as an automaton over the text
\* between the first capital and the comma.  States: "w1", "w2", "w3" after
\* 1, 2, >= 3 characters of the first word; "sep" in the \s+ before a further
\* word; "v1", "v2", "v3" inside a further word; "end" in the closing \s*.
IsWordChar(c) == c \notin {"\n", ","}

NameStep(q, c) ==
    CASE q = "w1"  -> IF IsWordChar(c) THEN {"w2"} ELSE {}
      [] q = "w2"  -> IF IsWordChar(c) THEN {"w3"} ELSE {}
      [] q = "w3"  -> (IF IsWordChar(c) THEN {"w3"} ELSE {})
                      \cup (IF IsSpace(c) THEN {"sep"} ELSE {})
      [] q = "sep" -> (IF IsSpace(c) THEN {"sep"} ELSE {})
                      \cup (IF IsUpper(c) THEN {"v1"} ELSE {})
      [] q = "v1"  -> IF IsWordChar(c) THEN {"v2"} ELSE {}
      [] q = "v2"  -> IF IsWordChar(c) THEN {"v3"} ELSE {}
      [] q = "v3"  -> (IF IsWordChar(c) THEN {"v3"} ELSE {})
                      \cup (IF IsSpace(c) THEN {"sep", "end"} ELSE {})
      [] q = "end" -> IF IsSpace(c) THEN {"end"} ELSE {}

RECURSIVE NameRun(_, _)
NameRun(states, text) ==
    IF text = "" THEN states
    ELSE NameRun(UNION {NameStep(q, Head(text)) : q \in states}, Tail(text))

\* text starts with the capital of the first word
IsNameList(text) ==
    /\ IsUpper(Ch(text, 1))
    /\ NameRun({"w1"}, Tail(text)) \cap {"v3", "end"} # {}

IsDash(c) == c \in {"-", "_"}

\* \s*\d{3,4}\s*[-_]\s*\d{3,4} from index k
IsLifeSpan(s, k) ==
    LET d1 == RunEnd(s, k, IsSpace)
        e1 == RunEnd(s, d1, IsDigit)
        dash == RunEnd(s, e1, IsSpace)
        d2 == RunEnd(s, dash + 1, IsSpace)
    IN  /\ e1 - d1 \in {3, 4}
        /\ IsDash(Ch(s, dash))
        /\ RunEnd(s, d2, IsDigit) - d2 >= 3

\* (^|\n)\s*(...)\s*,\s*\d{3,4}\s*[-_]\s*\d{3,4} anchored at a: a = 0 is the
\* start of the text, otherwise html[a] is a newline.  None, or the stripped name.
HeaderNameAt(html, a) ==
    LET g == RunEnd(html, a + 1, IsSpace)
        commas == {c \in g..Len(html) : Ch(html, c) = ","}
    IN  IF commas = {} THEN None
        ELSE LET c == Min(commas)
             IN  IF IsNameList(Sub(html, g, c - 1)) /\ IsLifeSpan(html, c + 1)
                 THEN Some(Strip(Sub(html, g, c - 1)))
                 ELSE None

HeaderHits(html) ==
    {a \in 0..Len(html) :
        /\ a = 0 \/ Ch(html, a) = "\n"
        /\ HeaderNameAt(html, a) # None}

_extract_artist_from_object_html(html) ==
    LET by_role_artist ==
            IF RoleArtistHits(html) = {} THEN ""
            ELSE ColonName(html, Min(RoleArtistHits(html)) + 8).name
        by_role ==
            IF RoleHits(html) = {} THEN ""
            ELSE ColonName(html, RoleEnd(Lower(html), Min(RoleHits(html)))).name
    IN  IF html = "" THEN None
        ELSE IF by_role_artist # "" THEN Some(by_role_artist)
        ELSE IF by_role # "" THEN Some(by_role)
        ELSE IF HeaderHits(html) # {} THEN HeaderNameAt(html, Min(HeaderHits(html)))
        ELSE None

(***************************************************************************)
(* HTTP: what requests.get gives back for one GET                          *)
(***************************************************************************)
\* requests.get raised (timeout, connection error)
GetFailed == [kind |-> "error", ok |-> FALSE, text |-> ""]
\* a response: resp.ok, resp.text
Response(ok, text) == [kind |-> "response", ok |-> ok, text |-> text]

\* no GET was made
NoGet == [kind |-> "none", ok |-> FALSE, text |-> ""]

\* one entry of the log of GETs a call made
Fetch(u, resp) == [url |-> u, resp |-> resp]

(***************************************************************************)
(* _extract_image_url_from_linked_art                                      *)
(* resp is the outcome of the GET of the access point, if the call makes   *)
(* it.  Result: the URL (or None) and the GETs made.                       *)
(***************************************************************************)
\* the URL _extract_image_url_from_linked_art GETs, None when it makes no GET
ImagePage(raw) ==
    IF _deep_find_iiif_image_url(raw) # None THEN None
    ELSE _extract_access_point_url(raw)

\* the widths asked of _normalize_iiif_image_url
JsonImageWidth == 600
HtmlImageWidth == 900

ImageFallbackKeepsAccessUrl(raw, resp) ==
    LET iiif == _deep_find_iiif_image_url(raw)
        access_url == _extract_access_point_url(raw)
        iiif_html == IF resp.kind = "response" /\ resp.ok
                     THEN _extract_iiif_from_html(resp.text)
                     ELSE access_url
    IN  IF iiif # None
        THEN [url |-> Some(_normalize_iiif_image_url(iiif[1], JsonImageWidth)), fetched |-> <<>>]
        ELSE IF access_url = None
        THEN [url |-> None, fetched |-> <<>>]
        ELSE [url |-> IF iiif_html = None THEN None
                      ELSE Some(_normalize_iiif_image_url(iiif_html[1], HtmlImageWidth)),
              fetched |-> <<Fetch(access_url[1], resp)>>]

ImageFallbackAlways(raw, resp) ==
    LET iiif == _deep_find_iiif_image_url(raw)
        access_url == _extract_access_point_url(raw)
    IN  [url |-> IF iiif = None THEN None
                 ELSE Some(_normalize_iiif_image_url(iiif[1], JsonImageWidth)),
         fetched |-> IF access_url = None THEN <<>> ELSE <<Fetch(access_url[1], resp)>>]

_extract_image_url_from_linked_art(raw, resp) ==
    LET iiif == _deep_find_iiif_image_url(raw)
        access_url == _extract_access_point_url(raw)
        iiif_html == IF resp.kind = "response" /\ resp.ok
                     THEN _extract_iiif_from_html(resp.text)
                     ELSE None
    IN  IF iiif # None
        THEN [url |-> Some(_normalize_iiif_image_url(iiif[1], JsonImageWidth)), fetched |-> <<>>]
        ELSE IF access_url = None
        THEN [url |-> None, fetched |-> <<>>]
        ELSE [url |-> IF iiif_html = None THEN None
                      ELSE Some(_normalize_iiif_image_url(iiif_html[1], HtmlImageWidth)),
              fetched |-> <<Fetch(access_url[1], resp)>>]

(***************************************************************************)
(* _map_linked_art_to_legacy_dict                                          *)
(***************************************************************************)
CanonicalPrefixes == {"SK-", "RP-", "BK-", "NG-", "AK-", "NM-"}
HasCanonicalPrefix(s) == \E pre \in CanonicalPrefixes : StartsWith(s, pre)

\* 1) pid_url: the first of "@id", "id" that is a non-blank string
PidUrl(raw) ==
    IF IsNonBlankStr(Get(raw, "@id")) THEN Some(Strip(Get(raw, "@id").s))
    ELSE IF IsNonBlankStr(Get(raw, "id")) THEN Some(Strip(Get(raw, "id").s))
    ELSE None

\* the stripped content of the first entry of xs that is a dict whose content
\* is a string satisfying P (after strip), None if there is none
FirstContent(xs, P(_)) ==
    LET hit == {i \in 1..Len(xs) :
                    /\ IsDict(xs[i])
                    /\ IsStr(Get(xs[i], "content"))
                    /\ P(Strip(Get(xs[i], "content").s))}
    IN  IF hit = {} THEN None ELSE Some(Strip(Get(xs[Min(hit)], "content").s))

NonEmpty(s) == s # ""

TitleBlankDefault(identified_by) ==
    LET found == IF IsList(identified_by)
                 THEN FirstContent(identified_by.xs, NonEmpty) ELSE None
    IN  IF found = None THEN "" ELSE found[1]

\* 2) title
Title(identified_by) ==
    LET found == IF IsList(identified_by)
                 THEN FirstContent(identified_by.xs, NonEmpty) ELSE None
    IN  IF found = None THEN "Untitled" ELSE found[1]

\* 4), 4a), 4b) objectNumber
ObjectNumber(pid_url, public_url, identified_by) ==
    LET start == IF pid_url = None THEN "unknown-id" ELSE pid_url[1]
        obj_from_url == IF public_url = None \/ public_url = Some("") THEN None
                        ELSE _extract_object_number_from_access_point(public_url[1])
        from_url == IF obj_from_url = None THEN start ELSE obj_from_url[1]
        from_ids == IF IsList(identified_by)
                    THEN FirstContent(identified_by.xs, HasCanonicalPrefix) ELSE None
    IN  IF ~HasCanonicalPrefix(from_url) /\ from_ids # None
        THEN from_ids[1] ELSE from_url

StableWebUrlAccessFirst(object_number, public_url, pid_url) ==
    IF public_url # None /\ public_url # Some("") THEN public_url
    ELSE IF HasCanonicalPrefix(object_number)
    THEN Some("https://www.rijksmuseum.nl/en/collection/" \o object_number)
    ELSE pid_url

\* 4c) stable_web_url
StableWebUrl(object_number, public_url, pid_url) ==
    IF HasCanonicalPrefix(object_number)
    THEN Some("https://www.rijksmuseum.nl/en/collection/" \o object_number)
    ELSE IF public_url # None /\ public_url # Some("") THEN public_url
    ELSE pid_url

IsYearText(v) == IsStr(v) /\ Len(v.s) >= 4 /\ AllIn(v.s, 1, 4, IsDigit)

\* 6) dating
Dating(produced_by) ==
    LET timespan == IF IsDict(produced_by) THEN Get(produced_by, "timespan") ELSE JNull
        bob == IF IsDict(timespan) THEN Get(timespan, "begin_of_the_begin") ELSE JNull
        eoe == IF IsDict(timespan) THEN Get(timespan, "end_of_the_end") ELSE JNull
        candidate == IF IsYearText(bob) THEN Some(bob.s)
                     ELSE IF IsYearText(eoe) THEN Some(eoe.s)
                     ELSE None
    IN  IF candidate = None THEN [year |-> None, presentingDate |-> None]
        ELSE [year |-> Some(StrToInt(Sub(candidate[1], 1, 4))),
              presentingDate |-> Some(Sub(candidate[1], 1, 10))]

\* the URL the artist fallback GETs, None when it makes no GET
ArtistPage(raw) ==
    LET pid_url == PidUrl(raw)
        access_url == _extract_access_point_url(raw)
        public_url == IF access_url = None THEN None
                      ELSE Some(_clean_object_page_url(access_url[1]))
        object_number == ObjectNumber(pid_url, public_url,
                                      OrEmptyList(Get(raw, "identified_by")))
    IN  IF _extract_principal_maker(raw) = "Unknown artist"
        THEN StableWebUrl(object_number, public_url, pid_url)
        ELSE None

\* raw is a dict.  artist_resp, image_resp: the outcomes of the GET of the
\* public page (artist fallback) and of the access point (image fallback),
\* for the GETs the call makes.  When the call raises, record is None.
_map_linked_art_to_legacy_dict(raw, artist_resp, image_resp) ==
    LET pid_url == PidUrl(raw)
        identified_by == OrEmptyList(Get(raw, "identified_by"))
        produced_by == Get(raw, "produced_by")
        access_url == _extract_access_point_url(raw)
        public_url == IF access_url = None THEN None
                      ELSE Some(_clean_object_page_url(access_url[1]))
        object_number == ObjectNumber(pid_url, public_url, identified_by)
        stable_web_url == StableWebUrl(object_number, public_url, pid_url)
        json_maker == _extract_principal_maker(raw)
        artist_get == json_maker = "Unknown artist" /\ stable_web_url # None
        html_artist == IF artist_get /\ artist_resp.kind = "response" /\ artist_resp.ok
                       THEN _extract_artist_from_object_html(artist_resp.text)
                       ELSE None
        principal_or_first_maker == IF html_artist # None THEN html_artist[1] ELSE json_maker
        image == _extract_image_url_from_linked_art(raw, image_resp)
        attribution == _classify_attribution(raw, principal_or_first_maker)
        fetched == (IF artist_get THEN <<Fetch(stable_web_url[1], artist_resp)>> ELSE <<>>)
                   \o image.fetched
    IN  IF attribution.raised
        THEN [raised |-> TRUE, record |-> None, fetched |-> fetched]
        ELSE [raised |-> FALSE,
              record |-> Some([
                  objectNumber |-> object_number,
                  title |-> Title(identified_by),
                  principalOrFirstMaker |-> principal_or_first_maker,
                  dating |-> Dating(produced_by),
                  materials |-> <<>>,
                  techniques |-> <<>>,
                  productionPlaces |-> <<>>,
                  links |-> [web |-> stable_web_url],
                  webImage |-> [url |-> image.url],
                  _attribution |-> attribution.tag]),
              fetched |-> fetched]

(***************************************************************************)
(* Linked Art records the resolver returns                                 *)
(***************************************************************************)
\* a dict from <<key, Optional value>> pairs; a key whose value is None is absent
Obj(pairs) ==
    LET kept == SelectSeq(pairs, LAMBDA kv : kv[2] # None)
    IN  JDict([i \in 1..Len(kept) |-> <<kept[i][1], kept[i][2][1]>>])

Content(text) == Obj(<<<<"content", Some(JStr(text))>>>>)
Named(text) == Obj(<<<<"type", Some(JStr("Person"))>>,
                     <<"identified_by", Some(JList(<<Content(text)>>))>>>>)
Labelled(text) == Obj(<<<<"_label", Some(JStr(text))>>>>)

IdOptions == <<
    None,
    Some(JStr("https://id.rijksmuseum.nl/200108369")) >>

IdentifiedByOptions == <<
    None,
    Some(JList(<<Content(" "), Content("The Milkmaid")>>)),
    Some(JList(<<Content("The Milkmaid"), Content("BK-1975-81")>>)) >>

CarriedOutByOptions == <<
    None,
    Some(JList(<<Named("Johannes Vermeer")>>)),
    Some(JList(<<Labelled("Anoniem")>>)),
    Some(JList(<<Labelled(" Onbekend")>>)),
    Some(Labelled("N/A")) >>

ReferredToByOptions == <<
    None,
    Some(JList(<<Content("Attributed to Johannes Vermeer")>>)),
    Some(JList(<<Content("workshop of unknown artist")>>)),
    Some(JList(<<Content("painter: Anoniem")>>)),
    Some(JList(<<Content("circle of Jan Steen")>>)) >>

TimespanOptions == <<
    None,
    Some(Obj(<<<<"begin_of_the_begin", Some(JStr("1657-01-01T00:00:00Z"))>>,
               <<"end_of_the_end", Some(JStr("1658-12-31T23:59:59Z"))>>>>)),
    Some(Obj(<<<<"begin_of_the_begin", Some(JStr("ca."))>>,
               <<"end_of_the_end", Some(JStr("1660"))>>>>)) >>

PartOptions == <<
    None,
    Some(JList(<<Obj(<<<<"carried_out_by", Some(JList(<<Named("Jan Steen")>>))>>,
                       <<"referred_to_by", Some(JList(<<Content("Jan Steen")>>))>>>>)>>)) >>

AccessPointOptions == <<
    None,
    Some(JList(<<Obj(<<<<"id", Some(JStr(
        "https://www.rijksmuseum.nl/en/collection/object/SK-A-2344--0123456789ab"))>>>>)>>)),
    Some(JList(<<Obj(<<<<"id", Some(JStr(
        " https://www.rijksmuseum.nl/nl/collectie/object/melkmeisje--c0ffee012345"))>>>>)>>)),
    Some(JList(<<Obj(<<<<"id", Some(JStr(
        "https://www.rijksmuseum.nl/nl/collectie/object/melkmeisje"))>>>>)>>)),
    Some(JList(<<Obj(<<<<"id", Some(JStr(
        "https://www.rijksmuseum.nl/en/collection/object/RP-P-1962-52--0123456789ab"))>>>>)>>)) >>

ImageOptions == <<
    None,
    Some(JStr("https://iiif.rijksmuseum.nl/abc/info.json")),
    Some(JStr("https://lh3.ggpht.com/abc.JPG")),
    Some(JList(<<JStr("https://iiif.rijksmuseum.nl/abc/info.json"),
                 JStr("https://lh3.ggpht.com/abc.JPG")>>)) >>

\* a value of each JSON type, falsy and truthy
JunkValues == <<
    JNull, JBool(FALSE), JBool(TRUE), JNum(0), JNum(5), JStr(""), JStr("x"),
    JList(<<JNum(5)>>), JDict(<<>>), Obj(<<<<"k", Some(JStr("v"))>>>>) >>

\* the fields of a record the mapper reads
Slots == {"identified_by", "produced_by", "carried_out_by", "part",
          "referred_to_by", "timespan", "access_point"}

\* the record with the given (Optional) field values; produced_by, when given,
\* replaces the production event built from the four fields inside it
BuildRaw(f) ==
    Obj(<<
        <<"id", f.id>>,
        <<"type", Some(JStr("HumanMadeObject"))>>,
        <<"identified_by", f.identified_by>>,
        <<"produced_by",
            IF f.produced_by # None THEN f.produced_by
            ELSE Some(Obj(<<
                <<"type", Some(JStr("Production"))>>,
                <<"timespan", f.timespan>>,
                <<"carried_out_by", f.carried_out_by>>,
                <<"referred_to_by", f.referred_to_by>>,
                <<"part", f.part>> >>)) >>,
        <<"representation", f.image>>,
        <<"subject_of", Some(JList(<<Obj(<<
            <<"type", Some(JStr("LinguisticObject"))>>,
            <<"digitally_carried_by", Some(JList(<<Obj(<<
                <<"type", Some(JStr("DigitalObject"))>>,
                <<"access_point", f.access_point>> >>)>>)) >> >>)>>)) >> >>)

Fields(i, n, c, r, t, p, a, g) ==
    [id |-> IdOptions[i], identified_by |-> IdentifiedByOptions[n],
     produced_by |-> None, carried_out_by |-> CarriedOutByOptions[c],
     referred_to_by |-> ReferredToByOptions[r], timespan |-> TimespanOptions[t],
     part |-> PartOptions[p], access_point |-> AccessPointOptions[a],
     image |-> ImageOptions[g]]

\* records that differ in the production event
ProductionRecords ==
    {BuildRaw(Fields(2, 2, c, r, t, p, 1, 2)) :
        c \in 1..Len(CarriedOutByOptions), r \in 1..Len(ReferredToByOptions),
        t \in 1..Len(TimespanOptions), p \in 1..Len(PartOptions)}

\* records that differ in identifiers, access point and image, of a maker
\* the record does not name (c = 1) and of one it names (c = 2)
PageRecords ==
    {BuildRaw(Fields(i, n, c, 1, 1, 1, a, g)) :
        i \in 1..Len(IdOptions), n \in 1..Len(IdentifiedByOptions), c \in 1..2,
        a \in 1..Len(AccessPointOptions), g \in 1..Len(ImageOptions)}

WellFormedRecords == ProductionRecords \cup PageRecords

\* records into which values of the wrong type are put
JunkBases == <<
    Fields(2, 2, 2, 2, 2, 1, 2, 1),
    Fields(2, 3, 1, 3, 1, 2, 3, 1),
    Fields(1, 1, 3, 4, 3, 1, 4, 2) >>

\* Most fields of one record that hold a value of the wrong type
MaxJunk == 1

\* f with the fields of S replaced by the junk values j[s]
WithJunk(f, S, j) ==
    [k \in DOMAIN f |-> IF k \in S THEN Some(JunkValues[j[k]]) ELSE f[k]]

MalformedRecords ==
    {BuildRaw(WithJunk(JunkBases[b], S, j)) :
        b \in 1..Len(JunkBases),
        <<S, j>> \in UNION {{<<T, k>> : k \in [T -> 1..Len(JunkValues)]} :
                        T \in {T \in SUBSET Slots : Cardinality(T) \in 1..MaxJunk}}}

\* the empty object
EmptyRecord == JDict(<<>>)

Pages == <<
    "<p>painter: Onbekend</p>",
    "x (artist): Jan Steen<img src=\"https://iiif.micr.io/ab/info.json\">",
    "<h1>t</h1>\nJan Steen, 1626 - 1679\n",
    "maker: anonymous<a href='https://iiif.x/y/full/max/0/default.jpg'>",
    "<html>not found</html>" >>

Responses ==
    {GetFailed, Response(FALSE, Pages[2])} \cup {Response(TRUE, Pages[i]) : i \in 1..Len(Pages)}

MapIdle == raw_object = None /\ mapped = None

MapInit ==
    /\ raw_object \in {EmptyRecord} \cup WellFormedRecords \cup MalformedRecords
    /\ mapped = None

\* one call of _map_linked_art_to_legacy_dict(raw_object)
MapRecord ==
    /\ raw_object # None
    /\ artist = None
    /\ mapped = None
    /\ \E artist_resp \in (IF ArtistPage(raw_object) = None THEN {NoGet} ELSE Responses),
          image_resp \in (IF ImagePage(raw_object) = None THEN {NoGet} ELSE Responses) :
            mapped' = Some(_map_linked_art_to_legacy_dict(raw_object, artist_resp, image_resp))
    /\ UNCHANGED <<raw_object, iiifVars, makerVars, classifyVars, yearVars, searchVars, findVars, selectionVars, analyticsVars>>

MapNext == MapRecord

(***************************************************************************)
(* Inputs of _classify_attribution                                         *)
(***************************************************************************)
TextFragments == {
    "Attributed to ", "toegeschreven aan ", "Workshop of ", "circle of ",
    "after ", "copy after ", "painter: ", "door ",
    "Rembrandt van Rijn", "REMBRANDT VAN RIJN", "Jan Steen", "oil on canvas"}

\* Longest "referred to by" text of the production event, in fragments
MaxFragments == 2

RECURSIVE TextsOf(_)
TextsOf(n) ==
    IF n = 0 THEN {""}
    ELSE LET shorter == TextsOf(n - 1)
         IN  shorter \cup {t \o f : t \in shorter, f \in TextFragments}

\* the parts of the production event: none, one that is referred to by a
\* text, one whose referred_to_by is not a list
ClassifyPartOptions == <<
    None,
    Some(JList(<<Obj(<<<<"referred_to_by", Some(JList(<<Content(" Jan Steen ")>>))>>>>)>>)),
    Some(JList(<<Obj(<<<<"referred_to_by", Some(JBool(TRUE))>>>>)>>)) >>

\* principal_or_first_maker as the mapper passes it: never empty
ArtistNames == {"Rembrandt van Rijn", "Jan Steen", "Unknown artist"}

ProductionWith(text, p) ==
    Obj(<<<<"produced_by", Some(Obj(<<
        <<"referred_to_by",
            IF text = "" THEN None ELSE Some(JList(<<Content(text)>>))>>,
        <<"part", ClassifyPartOptions[p]>> >>))>>>>)

ClassifyIdle == artist = None /\ attribution_tag = None

ClassifyInit ==
    /\ artist \in {Some(a) : a \in ArtistNames}
    /\ raw_object \in {ProductionWith(text, p) :
                        text \in TextsOf(MaxFragments), p \in 1..Len(ClassifyPartOptions)}
    /\ mapped = None
    /\ attribution_tag = None

\* one call of _classify_attribution(raw_object, artist)
Classify ==
    /\ artist # None
    /\ attribution_tag = None
    /\ attribution_tag' = Some(_classify_attribution(raw_object, artist[1]))
    /\ UNCHANGED <<artist, iiifVars, makerVars, mapVars, yearVars, searchVars, findVars, selectionVars, analyticsVars>>

ClassifyNext == Classify

(***************************************************************************)
(* extract_year                                                            *)
(***************************************************************************)
\* str.isdigit() for ASCII text
IsDigits(s) == s # "" /\ \A i \in 1..Len(s) : IsDigit(Ch(s, i))

extract_year(d) ==
    IF ~IsDict(d) THEN None
    ELSE LET y == Get(d, "year")
             pd == Get(d, "presentingDate")
         IN  IF y.t = "num" THEN Some(y.n)
             ELSE IF IsStr(pd) /\ IsDigits(Sub(pd.s, 1, 4))
             THEN Some(StrToInt(Sub(pd.s, 1, 4)))
             ELSE None

YearOptions == <<None, Some(JNull), Some(JNum(1642)), Some(JNum(0)), Some(JStr("1642")),
                 Some(JNum(1889))>>

PresentingDateOptions == <<
    None, Some(JStr("1650-03-01")), Some(JStr("165")), Some(JStr("16a0-01-01")),
    Some(JStr("")), Some(JNum(1650)), Some(JStr("0000-01-01")), Some(JStr("1650")),
    Some(JStr(" 1650")), Some(JStr("ca. 1650")) >>

DatingDicts ==
    {Obj(<<<<"year", YearOptions[y]>>, <<"presentingDate", PresentingDateOptions[d]>>>>) :
        y \in 1..Len(YearOptions), d \in 1..Len(PresentingDateOptions)}

DatingInputs == DatingDicts \cup {JNull, JStr("1650"), JList(<<JNum(1650)>>)}

YearIdle == dating = None /\ year = None

YearInit ==
    /\ dating \in {Some(d) : d \in DatingInputs}
    /\ year = None

\* one call of extract_year(dating)
ExtractYear ==
    /\ dating # None
    /\ year = None
    /\ year' = Some(extract_year(dating[1]))
    /\ UNCHANGED <<dating, iiifVars, makerVars, mapVars, classifyVars, searchVars, findVars, selectionVars, analyticsVars>>

YearNext == ExtractYear

SearchIdle ==
    /\ query = None /\ page_size = None /\ sort = None /\ page = None
    /\ pc = "idle" /\ asked = <<>> /\ pids = <<>> /\ fetch_log = <<>>
    /\ raw_objects = <<>> /\ map_log = <<>> /\ mapped_list = <<>> /\ outcome = None

(***************************************************************************)
(* search_artworks: candidate discovery (_search_ids)                      *)
(***************************************************************************)
MAX_RESULTS_PER_SEARCH == 120

SearchFields == <<"creator", "title", "description">>

\* a JSON response: resp.ok and resp.json() (None: the body is not JSON)
JsonResponse(ok, body) == [kind |-> "response", ok |-> ok, body |-> body]

\* session.get raised (timeout, connection error)
Unavailable == [kind |-> "error", ok |-> FALSE, body |-> None]

\* norm.page_size: min(int(page_size), MAX_RESULTS_PER_SEARCH)
NormPageSize(n) == IF n < MAX_RESULTS_PER_SEARCH THEN n ELSE MAX_RESULTS_PER_SEARCH

\* norm.page: max(int(page), 1)
NormPage(n) == IF n > 1 THEN n ELSE 1

\* data.get("orderedItems") or data.get("items") or [], as the for loop
\* iterates it; raised: the value cannot be iterated
DiscoveryItems(data) ==
    LET a == IF IsDict(data) THEN Get(data, "orderedItems") ELSE JNull
        b == IF IsDict(data) THEN Get(data, "items") ELSE JNull
        v == IF Truthy(a) THEN a ELSE IF Truthy(b) THEN b ELSE JList(<<>>)
    IN  IF ~IsDict(data) THEN [raised |-> TRUE, xs |-> <<>>]
        ELSE IF ~Iterable(v) THEN [raised |-> TRUE, xs |-> <<>>]
        ELSE [raised |-> FALSE, xs |-> Items(v)]

\* the loop over the items of one field: ids grows by the new non-blank
\* string ids in order; full: the loop returned because len(ids) >= limit;
\* raised: an item has no .get
RECURSIVE CollectIds(_, _, _)
CollectIds(found, items, limit) ==
    IF items = <<>> THEN [ids |-> found, full |-> FALSE, raised |-> FALSE]
    ELSE LET item == Head(items)
             pid == IF IsDict(item) THEN Get(item, "id") ELSE JNull
             fresh == IsNonBlankStr(pid) /\ \A i \in 1..Len(found) : found[i] # pid.s
             next == IF fresh THEN Append(found, pid.s) ELSE found
         IN  IF ~IsDict(item) THEN [ids |-> found, full |-> FALSE, raised |-> TRUE]
             ELSE IF fresh /\ Len(next) >= limit
             THEN [ids |-> next, full |-> TRUE, raised |-> FALSE]
             ELSE CollectIds(next, Tail(items), limit)

\* what one field's response does to _search_ids: ids so far, whether the
\* function is over (returned), whether it raised
AfterField(found, resp, limit, last) ==
    IF resp.kind # "response" \/ ~resp.ok \/ resp.body = None
    THEN [ids |-> found, over |-> TRUE, raised |-> TRUE]
    ELSE LET items == DiscoveryItems(resp.body[1])
             got == CollectIds(found, items.xs, limit)
         IN  IF items.raised \/ got.raised
             THEN [ids |-> got.ids, over |-> TRUE, raised |-> TRUE]
             ELSE [ids |-> got.ids, over |-> got.full \/ last, raised |-> FALSE]

(***************************************************************************)
(* The collection the search runs against                                  *)
(***************************************************************************)
Pid(n) == "https://id.rijksmuseum.nl/200" \o IntToStr(n)

Artwork(id, title, name, begin) ==
    Obj(<<<<"id", Some(JStr(id))>>,
          <<"identified_by", Some(JList(<<Content(title)>>))>>,
          <<"produced_by", Some(Obj(<<
              <<"carried_out_by", IF name = "" THEN None ELSE Some(JList(<<Named(name)>>))>>,
              <<"timespan", IF begin = "" THEN None
                            ELSE Some(Obj(<<<<"begin_of_the_begin", Some(JStr(begin))>>>>))>> >>))>>>>)

\* the JSON the resolver serves for each PID
Catalog == <<
    Artwork(Pid(1), "The Night Watch", "Rembrandt van Rijn", "1642-01-01"),
    Artwork(Pid(2), "The Merry Family", "Jan Steen", "1668-01-01"),
    Artwork(Pid(3), "Self-portrait", "Rembrandt van Rijn", ""),
    Artwork(Pid(4), "Bowl", "Anonymous", "0000-01-01"),
    Artwork(Pid(5), "The Milkmaid", "Johannes Vermeer", "1660-01-01"),
    Obj(<<<<"id", Some(JStr(Pid(6)))>>,
          <<"produced_by", Some(Obj(<<
              <<"carried_out_by", Some(JList(<<Named("Frans Hals")>>))>>,
              <<"referred_to_by", Some(JNum(5))>> >>))>>>>),
    Artwork(Pid(7), "Landscape", "", "1650-01-01"),
    Artwork(Pid(8), "the feast", "Jan Steen", "1660-01-01"),
    JList(<<JStr("not an object")>>) >>

\* pid_url.split('?')[0]
BeforeQuery(u) == LET q == Find(u, "?") IN IF q = 0 THEN u ELSE Sub(u, 1, q - 1)

\* the JSON at a PID
Resolve(pid) ==
    LET hit == {n \in 1..Len(Catalog) : BeforeQuery(pid) = Pid(n)}
    IN  Catalog[CHOOSE n \in hit : TRUE]

Hit(id) == Obj(<<<<"id", Some(id)>>>>)

HitList(ns) == Obj(<<<<"orderedItems", Some(JList([i \in 1..Len(ns) |-> Hit(JStr(Pid(ns[i])))]))>>>>)

\* the bodies the search endpoint can answer a field of a query with
SearchHits(q, field) ==
    IF q = "Rembrandt"
    THEN CASE field = "creator" -> {HitList(<<1, 2, 3, 4, 5>>)}
           [] field = "title" -> {HitList(<<4, 5, 6, 7, 8>>)}
           [] field = "description" -> {HitList(<<8, 9>>)}
    ELSE CASE field = "creator" ->
                {Obj(<<<<"orderedItems", Some(JList(<<>>))>>>>), HitList(<<2, 2, 3>>)}
           [] field = "title" ->
                {Obj(<<<<"items", Some(JList(<<Hit(JStr(Pid(3))), Hit(JStr(" ")),
                                               Hit(JNum(6)), Hit(JStr(Pid(6)))>>))>>>>)}
           [] field = "description" ->
                {Obj(<<>>),
                 Obj(<<<<"orderedItems", Some(JList(<<>>))>>,
                       <<"items", Some(JList(<<Hit(JStr(Pid(7))),
                                               Hit(JStr(Pid(2) \o "?v=2"))>>))>>>>)}

DiscoveryResponses(q, field) ==
    {Unavailable, JsonResponse(FALSE, None), JsonResponse(TRUE, None)}
        \cup {JsonResponse(TRUE, Some(body)) : body \in SearchHits(q, field)}

(***************************************************************************)
(* search_artworks: resolving, mapping, sorting, paging                    *)
(***************************************************************************)
\* _fetch_linked_art_json, given the response to its GET.  "raw": the record
\* ({} when the JSON is not an object); "skipped": RijksAPIError, which
\* search_artworks catches; "escaped": the exception session.get raised
_fetch_linked_art_json(resp) ==
    IF resp.kind # "response" THEN [kind |-> "escaped", raw |-> JNull]
    ELSE IF ~resp.ok \/ resp.body = None THEN [kind |-> "skipped", raw |-> JNull]
    ELSE [kind |-> "raw", raw |-> IF IsDict(resp.body[1]) THEN resp.body[1] ELSE JDict(<<>>)]

\* the mapping loop's try/except around one record
AfterMapAborting(list, out) ==
    IF out.raised THEN <<>> ELSE Append(list, out.record[1])

AfterMapSharingMaker(list, out) ==
    IF out.raised THEN list
    ELSE IF list = <<>> THEN Append(list, out.record[1])
    ELSE Append(list, [out.record[1] EXCEPT !.principalOrFirstMaker =
                                                list[Len(list)].principalOrFirstMaker])

AfterMap(list, out) ==
    IF out.raised THEN list ELSE Append(list, out.record[1])

\* the dating dict of a mapped record, as extract_year reads it
DatingJson(d) ==
    Obj(<<<<"year", Some(IF d.year = None THEN JNull ELSE JNum(d.year[1]))>>,
          <<"presentingDate", IF d.presentingDate = None THEN None
                              ELSE Some(JStr(d.presentingDate[1]))>>>>)

\* the characters in code point order (the stand-ins of the non-ASCII
\* characters last)
CodePoints ==
    " !\"#$%&'()*+,-./0123456789:;<=>?ABCDEFGHIJKLMNOPQRSTUVWXYZ[\\]abcdefghijklmnopqrstuvwxyz{|}@^~_"

Ord == [c \in {Ch(CodePoints, i) : i \in 1..Len(CodePoints)} |->
            CHOOSE i \in 1..Len(CodePoints) : Ch(CodePoints, i) = c]

\* a < b for str
RECURSIVE StrLess(_, _)
StrLess(a, b) ==
    IF b = "" THEN FALSE
    ELSE IF a = "" THEN TRUE
    ELSE IF Head(a) = Head(b) THEN StrLess(Tail(a), Tail(b))
    ELSE Ord[Head(a)] < Ord[Head(b)]

\* the year of a record without one, in _sort_key
NoYear == 1000000000

\* (sort or "relevance").lower()
NormSort(mode) == Lower(IF mode = "" THEN "relevance" ELSE mode)

\* _sort_key; the two-part keys are given a leading 0
_sort_key(art, mode) ==
    LET maker_key == Lower(art.principalOrFirstMaker)
        title_key == Lower(art.title)
        y == extract_year(DatingJson(art.dating))
        year_key == IF y = None \/ y = Some(0) THEN NoYear ELSE y[1]
    IN  IF mode = "title" THEN <<0, title_key, maker_key>>
        ELSE IF mode = "chronologic" THEN <<year_key, maker_key, title_key>>
        ELSE IF mode = "achronologic" THEN <<0 - year_key, maker_key, title_key>>
        ELSE <<0, maker_key, title_key>>

\* a < b for the key tuples
KeyLess(a, b) ==
    \/ a[1] < b[1]
    \/ a[1] = b[1] /\ StrLess(a[2], b[2])
    \/ a[1] = b[1] /\ a[2] = b[2] /\ StrLess(a[3], b[3])

\* list.sort(key=_sort_key): stable, ascending.  A keyed item is a pair
\* <<key, record>>; an item goes after the items whose key is not greater.
RECURSIVE InsertByKey(_, _)
InsertByKey(sorted, item) ==
    IF sorted = <<>> THEN <<item>>
    ELSE IF KeyLess(item[1], Head(sorted)[1]) THEN <<item>> \o sorted
    ELSE <<Head(sorted)>> \o InsertByKey(Tail(sorted), item)

RECURSIVE SortKeyed(_)
SortKeyed(keyed) ==
    IF keyed = <<>> THEN <<>>
    ELSE InsertByKey(SortKeyed(SubSeq(keyed, 1, Len(keyed) - 1)), keyed[Len(keyed)])

Sorted(list, mode) ==
    LET keyed == SortKeyed([i \in 1..Len(list) |-> <<_sort_key(list[i], mode), list[i]>>])
    IN  [i \in 1..Len(keyed) |-> keyed[i][2]]

\* xs[start:end]
PySlice(xs, start, end) ==
    LET n == Len(xs)
        lo == IF start < 0 THEN (IF start + n < 0 THEN 0 ELSE start + n)
              ELSE IF start > n THEN n ELSE start
        hi == IF end < 0 THEN (IF end + n < 0 THEN 0 ELSE end + n)
              ELSE IF end > n THEN n ELSE end
    IN  IF lo >= hi THEN <<>> ELSE SubSeq(xs, lo + 1, hi)

PageItemsFromNextPage(list, page_no, size) ==
    PySlice(list, page_no * size, page_no * size + size)

\* the local pagination: mapped[start:end]
PageItems(list, page_no, size) ==
    PySlice(list, (page_no - 1) * size, (page_no - 1) * size + size)

Returned(ordered, items, total) ==
    [raised |-> FALSE, cause |-> "", ordered |-> ordered, items |-> items, total |-> total]

Raising(cause) ==
    [raised |-> TRUE, cause |-> cause, ordered |-> <<>>, items |-> <<>>, total |-> 0]

(***************************************************************************)
(* search_artworks: one call                                               *)
(***************************************************************************)
Queries == {"", "  ", "Rembrandt", " steen "}

PageSizes == {0 - 1, 0, 2, 8, 200}

SortModes == {"", "artist", "title", "Chronologic", "achronologic", "newest"}

PageNumbers == {0, 1, 2}

\* Most fetches of one search that fail
MaxFetchFaults == 1

FetchFailed(resp) == resp.kind # "response" \/ ~resp.ok \/ resp.body = None

FetchResponses(pid, log) ==
    {JsonResponse(TRUE, Some(Resolve(pid)))} \cup
    (IF Cardinality({i \in 1..Len(log) : FetchFailed(log[i].resp)}) < MaxFetchFaults
     THEN {Unavailable, JsonResponse(FALSE, None), JsonResponse(TRUE, None)}
     ELSE {})

\* the pages the museum's site answers the mapper's GETs with
SearchPages == {GetFailed, Response(TRUE, Pages[2]), Response(TRUE, Pages[5])}

SearchInit ==
    /\ query \in {Some(q) : q \in Queries}
    /\ page_size \in {Some(n) : n \in PageSizes}
    /\ sort = None /\ page = None
    /\ pc = "start" /\ asked = <<>> /\ pids = <<>> /\ fetch_log = <<>>
    /\ raw_objects = <<>> /\ map_log = <<>> /\ mapped_list = <<>> /\ outcome = None

\* lines 874-883: the arguments are normalised; a blank query returns [], 0
Begin ==
    /\ pc = "start"
    /\ IF Strip(query[1]) = ""
       THEN pc' = "done" /\ outcome' = Some(Returned(<<>>, <<>>, 0))
       ELSE pc' = "discover" /\ UNCHANGED outcome
    /\ UNCHANGED <<query, page_size, sort, page, asked, pids, fetch_log,
                   raw_objects, map_log, mapped_list>>
    /\ UNCHANGED <<iiifVars, makerVars, mapVars, classifyVars, yearVars, findVars, selectionVars, analyticsVars>>

\* _search_ids: the GET of the next field and the loop over its items
Discover ==
    /\ pc = "discover"
    /\ LET field == SearchFields[Len(asked) + 1]
       IN  \E resp \in DiscoveryResponses(Strip(query[1]), field) :
             LET got == AfterField(pids, resp, NormPageSize(page_size[1]),
                                   Len(asked) + 1 = Len(SearchFields))
             IN  /\ asked' = Append(asked, [field |-> field, resp |-> resp])
                 /\ pids' = got.ids
                 /\ IF got.raised
                    THEN pc' = "done" /\ outcome' = Some(Raising("discovery"))
                    ELSE IF got.over /\ got.ids = <<>>
                    THEN pc' = "done" /\ outcome' = Some(Returned(<<>>, <<>>, 0))
                    ELSE IF got.over
                    THEN pc' = "fetch" /\ UNCHANGED outcome
                    ELSE pc' = "discover" /\ UNCHANGED outcome
    /\ UNCHANGED <<query, page_size, sort, page, fetch_log, raw_objects, map_log, mapped_list>>
    /\ UNCHANGED <<iiifVars, makerVars, mapVars, classifyVars, yearVars, findVars, selectionVars, analyticsVars>>

\* lines 890-894: the fetch of the next PID
FetchRecord ==
    /\ pc = "fetch"
    /\ LET pid == pids[Len(fetch_log) + 1]
       IN  \E resp \in FetchResponses(pid, fetch_log) :
             LET got == _fetch_linked_art_json(resp)
             IN  /\ fetch_log' = Append(fetch_log, [pid |-> pid, resp |-> resp])
                 /\ raw_objects' = IF got.kind = "raw" THEN Append(raw_objects, got.raw)
                                   ELSE raw_objects
                 /\ IF got.kind = "escaped"
                    THEN pc' = "done" /\ outcome' = Some(Raising("fetch"))
                    ELSE /\ pc' = IF Len(fetch_log') = Len(pids) THEN "map" ELSE "fetch"
                         /\ UNCHANGED outcome
    /\ UNCHANGED <<query, page_size, sort, page, asked, pids, map_log, mapped_list>>
    /\ UNCHANGED <<iiifVars, makerVars, mapVars, classifyVars, yearVars, findVars, selectionVars, analyticsVars>>

\* lines 897-901: the mapping of the next fetched record
MapFetched ==
    /\ pc = "map"
    /\ Len(map_log) < Len(raw_objects)
    /\ LET raw == raw_objects[Len(map_log) + 1]
       IN  \E artist_resp \in (IF ArtistPage(raw) = None THEN {NoGet} ELSE SearchPages),
              image_resp \in (IF ImagePage(raw) = None THEN {NoGet} ELSE SearchPages) :
             /\ map_log' = Append(map_log, [artist_resp |-> artist_resp,
                                            image_resp |-> image_resp])
             /\ mapped_list' = AfterMap(mapped_list,
                    _map_linked_art_to_legacy_dict(raw, artist_resp, image_resp))
    /\ UNCHANGED <<query, page_size, sort, page, pc, asked, pids, fetch_log,
                   raw_objects, outcome>>
    /\ UNCHANGED <<iiifVars, makerVars, mapVars, classifyVars, yearVars, findVars, selectionVars, analyticsVars>>

\* lines 903-923: the sort and the page returned
SortAndPage ==
    /\ pc = "map"
    /\ Len(map_log) = Len(raw_objects)
    /\ \E mode \in SortModes :
         LET ordered == Sorted(mapped_list, NormSort(mode))
         IN  \E page_no \in PageNumbers :
               LET items == PageItems(ordered, NormPage(page_no),
                                      NormPageSize(page_size[1]))
               IN  /\ sort' = Some(mode)
                   /\ page' = Some(page_no)
                   /\ outcome' = Some(Returned(ordered, items, Len(mapped_list)))
    /\ pc' = "done"
    /\ UNCHANGED <<query, page_size, asked, pids, fetch_log, raw_objects, map_log, mapped_list>>
    /\ UNCHANGED <<iiifVars, makerVars, mapVars, classifyVars, yearVars, findVars, selectionVars, analyticsVars>>

SearchNext == Begin \/ Discover \/ FetchRecord \/ MapFetched \/ SortAndPage

(***************************************************************************)
(* _deep_find_iiif_image_url on its own                                    *)
(***************************************************************************)
\* strings a record holds
FindStrings == <<
    "https://iiif.rijksmuseum.nl/abc/info.json",
    "https://lh3.ggpht.com/abc.JPG",
    "https://iiif.rijksmuseum.nl/d/full/max/0/default.jpg",
    "https://id.rijksmuseum.nl/200108369",
    "https://www.rijksmuseum.nl/IIIF/e.tiff?download",
    "ftp://iiif.rijksmuseum.nl/f.png" >>

\* Most strings in one record
MaxStrings == 3

\* the sequences of at most MaxStrings different strings
StringLists ==
    UNION {{[i \in 1..n |-> FindStrings[f[i]]] :
                f \in {g \in [1..n -> 1..Len(FindStrings)] :
                          \A i, j \in 1..n : i # j => g[i] # g[j]}} :
           n \in 0..MaxStrings}

\* records that hold the strings xs in document order: in a dict of fields
\* and nested lists, or in nested dicts
Holding(xs, shape) ==
    LET s(i) == IF i <= Len(xs) THEN Some(JStr(xs[i])) ELSE None
    IN  IF shape = 1
        THEN Obj(<<<<"id", s(1)>>,
                   <<"type", Some(JStr("HumanMadeObject"))>>,
                   <<"shown_by", Some(JNum(3))>>,
                   <<"representation", Some(JList(<<
                        Obj(<<<<"type", Some(JStr("VisualItem"))>>,
                              <<"digitally_shown_by", Some(JList(<<
                                    Obj(<<<<"access_point", Some(JList(<<Obj(<<<<"id", s(2)>>>>)>>))>>>>)>>))>>>>),
                        Obj(<<<<"id", s(3)>>>>) >>
                        \o [k \in 1..(Len(xs) - 3) |-> JStr(xs[k + 3])]))>> >>)
        ELSE Obj(<<<<"subject_of", Some(Obj(<<
                        <<"part", Some(JList(<<Obj(<<<<"id", s(1)>>, <<"_label", s(2)>>>>)>>))>>,
                        <<"content", Some(JNull)>> >>))>>,
                   <<"equivalent", Some(JList(
                        [k \in 1..(Len(xs) - 2) |-> JStr(xs[k + 2])]))>> >>)

FindShapes == {1, 2}

FindIdle == image_strings = None /\ image_raw = None /\ image_found = None

FindInit ==
    /\ image_strings \in {Some(xs) : xs \in StringLists}
    /\ \E shape \in FindShapes : image_raw = Some(Holding(image_strings[1], shape))
    /\ image_found = None

\* one call of _deep_find_iiif_image_url(image_raw)
DeepFind ==
    /\ image_raw # None
    /\ image_found = None
    /\ image_found' = Some(_deep_find_iiif_image_url(image_raw[1]))
    /\ UNCHANGED <<image_strings, image_raw>>
    /\ UNCHANGED <<iiifVars, makerVars, mapVars, classifyVars, yearVars, searchVars, selectionVars, analyticsVars>>

FindNext == DeepFind

(***************************************************************************)
(* The selection pages: My Selection, Compare Artworks and the Explorer.   *)
(*                                                                         *)
(* A Streamlit page script runs from its first line on every widget event. *)
(* st.rerun() abandons the run and starts the script again at once, and    *)
(* st.stop() ends the run.  One action below is one widget event followed  *)
(* to the point where the page waits for the user again: the start of the  *)
(* script, the handler of the widget, and either the rest of the script or,*)
(* after st.rerun(), the whole run that st.rerun() starts.                 *)
(*                                                                         *)
(* A Python dict is a sequence of <<key, value>> pairs in insertion order; *)
(* a key of st.session_state that is not set yet is None, a set one is     *)
(* Some(value).  An artwork carries its objectNumber and, when marked for  *)
(* comparison, the _compare_candidate flag.                                *)
(***************************************************************************)
DictKeys(d) == [i \in 1..Len(d) |-> d[i][1]]

DictHas(d, k) == \E i \in 1..Len(d) : d[i][1] = k

DictGet(d, k) == d[CHOOSE i \in 1..Len(d) : d[i][1] = k][2]

\* d[k] = v: a key already present keeps its place, a new one goes last
DictSet(d, k, v) ==
    IF DictHas(d, k)
    THEN [i \in 1..Len(d) |-> IF d[i][1] = k THEN <<k, v>> ELSE d[i]]
    ELSE Append(d, <<k, v>>)

\* d.pop(k, None)
DictPop(d, k) == SelectSeq(d, LAMBDA p : p[1] # k)

Favorite(obj_num, flagged) ==
    [objectNumber |-> obj_num,
     _compare_candidate |-> IF flagged THEN Some(TRUE) ELSE None]

IsCandidate(art) == art._compare_candidate = Some(TRUE)

\* art.pop("_compare_candidate", None)
Unmarked(art) == [art EXCEPT !._compare_candidate = None]

\* art["_compare_candidate"] = True
Marked(art) == [art EXCEPT !._compare_candidate = Some(TRUE)]

MAX_CANDIDATES == 4

get_compare_candidates_from_favorites(fav) ==
    DictKeys(SelectSeq(fav, LAMBDA p : IsCandidate(p[2])))

\* a page without the auto-clean
AutoCleanOff(fav) == fav

\* the auto-clean at the top of My Selection: only the first four candidates
\* keep their flag
AutoClean(fav) ==
    LET candidate_ids_all == get_compare_candidates_from_favorites(fav)
        dropped == {candidate_ids_all[i] : i \in (MAX_CANDIDATES + 1)..Len(candidate_ids_all)}
    IN  IF Len(candidate_ids_all) > MAX_CANDIDATES
        THEN [i \in 1..Len(fav) |->
                IF fav[i][1] \in dropped THEN <<fav[i][1], Unmarked(fav[i][2])>> ELSE fav[i]]
        ELSE fav

\* the flags of a selection, whatever the order of its artworks
Flags(fav) == {<<fav[i][1], IsCandidate(fav[i][2])>> : i \in 1..Len(fav)}

ObjectNumbers == <<"SK-A-1", "SK-A-2", "SK-A-3", "SK-A-4", "SK-A-5">>

ObjectIds == {ObjectNumbers[i] : i \in 1..Len(ObjectNumbers)}

\* the selection holding the artworks xs, those of marks flagged
Selection(xs, marks) == [i \in 1..Len(xs) |-> <<xs[i], Favorite(xs[i], xs[i] \in marks)>>]

\* the page of results the Explorer shows
page_items == SubSeq(ObjectNumbers, 1, 3)

\* what the user may paste into "Collection code to import": the decoded JSON
ImportCodes ==
    { Selection(ObjectNumbers, ObjectIds),
      Selection(ObjectNumbers, {"SK-A-2", "SK-A-3", "SK-A-5"}),
      Selection(<<"SK-A-5", "SK-A-1">>, {"SK-A-5"}) }

NoteTexts == {"", "compare with the Delft view"}

MaxKeyGeneration == 2

\* st.session_state["favorites"] once the page has loaded it
Loaded(slot, file) == IF slot = None THEN file ELSE slot[1]

has_note_text(nts, obj_num) == DictHas(nts, obj_num) /\ DictGet(nts, obj_num) # ""

SelectionIdle ==
    /\ open_page = "none"
    /\ favorites = None
    /\ notes = None
    /\ fav_file = <<>>
    /\ notes_file = <<>>
    /\ detail_art_id = None
    /\ compare_candidates = <<>>
    /\ cmp_limit_warning = FALSE
    /\ cmp_key_generation = 0

\* the comparison pages start from five artworks saved on the Explorer
CompareInit ==
    /\ open_page = "none"
    /\ favorites = None
    /\ notes = None
    /\ fav_file = Selection(ObjectNumbers, {})
    /\ notes_file = <<>>
    /\ detail_art_id = None
    /\ compare_candidates = <<>>
    /\ cmp_limit_warning = FALSE
    /\ cmp_key_generation = 0

\* the notes pages start from an empty selection
NotesInit == SelectionIdle

\* My Selection from its first line to its last with no handler in between,
\* on a session whose favorites are fav, written to disk as file
SelectionRun(fav, file, cc, warn, group_by_artist) ==
    LET cleaned == AutoClean(fav) IN
    /\ favorites' = Some(cleaned)
    /\ fav_file' = IF Len(get_compare_candidates_from_favorites(fav)) > MAX_CANDIDATES
                   THEN cleaned ELSE file
    /\ compare_candidates' = IF cleaned = <<>> THEN cc
                             ELSE get_compare_candidates_from_favorites(cleaned)
    /\ cmp_limit_warning' = IF cleaned # <<>> /\ ~group_by_artist THEN FALSE ELSE warn

\* the rest of a My Selection run after a handler that does not rerun
SelectionRest(fav, file, cc, warn, group_by_artist) ==
    /\ favorites' = Some(fav)
    /\ fav_file' = file
    /\ compare_candidates' = IF group_by_artist THEN cc
                             ELSE get_compare_candidates_from_favorites(fav)
    /\ cmp_limit_warning' = IF group_by_artist THEN warn ELSE FALSE

\* the user opens My Selection, or touches a widget of it that has no handler
OpenSelection ==
    \E group_by_artist \in BOOLEAN :
        /\ open_page' = "selection"
        /\ notes' = Some(Loaded(notes, notes_file))
        /\ SelectionRun(Loaded(favorites, fav_file), fav_file, compare_candidates,
                        cmp_limit_warning, group_by_artist)
        /\ UNCHANGED <<notes_file, detail_art_id, cmp_key_generation>>
        /\ UNCHANGED <<iiifVars, makerVars, mapVars, classifyVars, yearVars, searchVars, findVars, analyticsVars>>

\* "Load selection from code"
LoadSelectionFromCode ==
    \E data \in ImportCodes, group_by_artist \in BOOLEAN :
        /\ open_page = "selection"
        /\ favorites # None /\ favorites[1] # <<>>
        /\ SelectionRun(data, data, compare_candidates, cmp_limit_warning, group_by_artist)
        /\ UNCHANGED <<open_page, notes, notes_file, detail_art_id, cmp_key_generation>>
        /\ UNCHANGED <<iiifVars, makerVars, mapVars, classifyVars, yearVars, searchVars, findVars, analyticsVars>>

\* "Clear my entire selection"
ClearSelection ==
    \E group_by_artist \in BOOLEAN :
        /\ open_page = "selection"
        /\ favorites # None /\ favorites[1] # <<>>
        /\ cmp_key_generation < MaxKeyGeneration
        /\ cmp_key_generation' = cmp_key_generation + 1
        /\ detail_art_id' = None
        /\ SelectionRun(<<>>, <<>>, <<>>, cmp_limit_warning, group_by_artist)
        /\ UNCHANGED <<open_page, notes, notes_file>>
        /\ UNCHANGED <<iiifVars, makerVars, mapVars, classifyVars, yearVars, searchVars, findVars, analyticsVars>>

\* "Clear all comparison marks"
ClearComparisonMarks ==
    \E group_by_artist \in BOOLEAN :
        LET fav == AutoClean(favorites[1])
            candidate_ids == get_compare_candidates_from_favorites(fav)
            cleared == [i \in 1..Len(fav) |-> <<fav[i][1], Unmarked(fav[i][2])>>]
        IN  /\ open_page = "selection"
            /\ favorites # None /\ favorites[1] # <<>>
            /\ candidate_ids # <<>>
            /\ cmp_key_generation < MaxKeyGeneration
            /\ cmp_key_generation' = cmp_key_generation + 1
            /\ SelectionRun(cleared, cleared, <<>>, cmp_limit_warning, group_by_artist)
            /\ UNCHANGED <<open_page, notes, notes_file, detail_art_id>>
            /\ UNCHANGED <<iiifVars, makerVars, mapVars, classifyVars, yearVars, searchVars, findVars, analyticsVars>>

\* handle_compare_logic(obj_num, desired), called when the checkbox
\* "Mark for comparison" of a card differs from the flag of its artwork
handle_compare_logic(obj_num, desired, group_by_artist) ==
    LET fav == AutoClean(favorites[1])
        art == DictGet(fav, obj_num)
        is_candidate == IsCandidate(art)
        current_candidates == get_compare_candidates_from_favorites(fav)
        changed == DictSet(fav, obj_num, IF desired THEN Marked(art) ELSE Unmarked(art))
    IN  /\ open_page = "selection"
        /\ favorites # None
        /\ DictHas(favorites[1], obj_num)
        /\ desired # is_candidate
        /\ IF desired /\ Len(current_candidates) >= MAX_CANDIDATES
           THEN /\ cmp_key_generation < MaxKeyGeneration
                /\ cmp_key_generation' = cmp_key_generation + 1
                /\ SelectionRun(fav, fav_file, current_candidates, TRUE, group_by_artist)
           ELSE /\ cmp_key_generation' = cmp_key_generation
                /\ SelectionRest(changed, changed, current_candidates,
                                 cmp_limit_warning, group_by_artist)
        /\ UNCHANGED <<open_page, notes, notes_file, detail_art_id>>
        /\ UNCHANGED <<iiifVars, makerVars, mapVars, classifyVars, yearVars, searchVars, findVars, analyticsVars>>

MarkForComparison ==
    \E obj_num \in ObjectIds, desired \in BOOLEAN, group_by_artist \in BOOLEAN :
        handle_compare_logic(obj_num, desired, group_by_artist)

\* "View details" on a card
ViewDetails ==
    \E obj_num \in ObjectIds, group_by_artist \in BOOLEAN :
        /\ open_page = "selection"
        /\ favorites # None
        /\ DictHas(favorites[1], obj_num)
        /\ detail_art_id' = Some(obj_num)
        /\ SelectionRest(favorites[1], fav_file,
                         get_compare_candidates_from_favorites(favorites[1]),
                         cmp_limit_warning, group_by_artist)
        /\ UNCHANGED <<open_page, notes, notes_file, cmp_key_generation>>
        /\ UNCHANGED <<iiifVars, makerVars, mapVars, classifyVars, yearVars, searchVars, findVars, analyticsVars>>

\* "Save notes" in the detail view
SaveNotes ==
    \E note_text \in NoteTexts, group_by_artist \in BOOLEAN :
        /\ open_page = "selection"
        /\ favorites # None
        /\ detail_art_id # None
        /\ DictHas(favorites[1], detail_art_id[1])
        /\ notes' = Some(DictSet(notes[1], detail_art_id[1], note_text))
        /\ notes_file' = notes'[1]
        /\ SelectionRest(favorites[1], fav_file,
                         get_compare_candidates_from_favorites(favorites[1]),
                         cmp_limit_warning, group_by_artist)
        /\ UNCHANGED <<open_page, detail_art_id, cmp_key_generation>>
        /\ UNCHANGED <<iiifVars, makerVars, mapVars, classifyVars, yearVars, searchVars, findVars, analyticsVars>>

\* "Remove from my selection" on a card
RemoveCard ==
    \E obj_num \in ObjectIds, group_by_artist \in BOOLEAN :
        LET fav == DictPop(AutoClean(favorites[1]), obj_num) IN
        /\ open_page = "selection"
        /\ favorites # None
        /\ DictHas(favorites[1], obj_num)
        /\ detail_art_id' = IF detail_art_id = Some(obj_num) THEN None ELSE detail_art_id
        /\ notes' = Some(DictPop(notes[1], obj_num))
        /\ notes_file' = notes'[1]
        /\ SelectionRun(fav, fav, get_compare_candidates_from_favorites(AutoClean(favorites[1])),
                        cmp_limit_warning, group_by_artist)
        /\ UNCHANGED <<open_page, cmp_key_generation>>
        /\ UNCHANGED <<iiifVars, makerVars, mapVars, classifyVars, yearVars, searchVars, findVars, analyticsVars>>

\* "Remove from my selection" in the detail view
RemoveDetail ==
    \E group_by_artist \in BOOLEAN :
        LET detail_id == detail_art_id[1]
            fav == DictPop(AutoClean(favorites[1]), detail_id)
        IN  /\ open_page = "selection"
            /\ favorites # None
            /\ detail_art_id # None
            /\ DictHas(favorites[1], detail_id)
            /\ notes' = Some(DictPop(notes[1], detail_id))
            /\ notes_file' = notes'[1]
            /\ detail_art_id' = None
            /\ SelectionRun(fav, fav, get_compare_candidates_from_favorites(favorites[1]),
                            cmp_limit_warning, group_by_artist)
            /\ UNCHANGED <<open_page, cmp_key_generation>>
            /\ UNCHANGED <<iiifVars, makerVars, mapVars, classifyVars, yearVars, searchVars, findVars, analyticsVars>>

\* the user opens Compare Artworks
OpenCompare ==
    LET fav == Loaded(favorites, fav_file) IN
    /\ open_page' = "compare"
    /\ favorites' = Some(fav)
    /\ compare_candidates' = IF fav = <<>> THEN compare_candidates
                             ELSE get_compare_candidates_from_favorites(fav)
    /\ UNCHANGED <<notes, fav_file, notes_file, detail_art_id, cmp_limit_warning, cmp_key_generation>>
    /\ UNCHANGED <<iiifVars, makerVars, mapVars, classifyVars, yearVars, searchVars, findVars, analyticsVars>>

\* "Clear comparison marks in My Selection" on Compare Artworks: the button
\* sets cmp_action_clear_all and reruns, the rerun clears the marks and reruns
CompareClearAll ==
    LET fav == favorites[1]
        cleared == [i \in 1..Len(fav) |-> <<fav[i][1], Unmarked(fav[i][2])>>]
    IN  /\ open_page = "compare"
        /\ favorites # None
        /\ get_compare_candidates_from_favorites(fav) # <<>>
        /\ favorites' = Some(cleared)
        /\ fav_file' = cleared
        /\ compare_candidates' = <<>>
        /\ UNCHANGED <<open_page, notes, notes_file, detail_art_id, cmp_limit_warning, cmp_key_generation>>
        /\ UNCHANGED <<iiifVars, makerVars, mapVars, classifyVars, yearVars, searchVars, findVars, analyticsVars>>

\* the user opens the Explorer
OpenExplorer ==
    /\ open_page' = "explorer"
    /\ favorites' = Some(Loaded(favorites, fav_file))
    /\ notes' = Some(Loaded(notes, notes_file))
    /\ UNCHANGED <<fav_file, notes_file, detail_art_id, compare_candidates, cmp_limit_warning, cmp_key_generation>>
    /\ UNCHANGED <<iiifVars, makerVars, mapVars, classifyVars, yearVars, searchVars, findVars, analyticsVars>>

\* the checkbox "In my selection" of a result card
ToggleInMySelection ==
    \E i \in 1..Len(page_items) :
        LET object_number == page_items[i]
            was_fav == DictHas(favorites[1], object_number)
            fav == IF was_fav THEN DictPop(favorites[1], object_number)
                   ELSE DictSet(favorites[1], object_number, Favorite(object_number, FALSE))
        IN  /\ open_page = "explorer"
            /\ favorites # None
            /\ favorites' = Some(fav)
            /\ fav_file' = fav
            /\ UNCHANGED <<open_page, notes, notes_file, detail_art_id, compare_candidates, cmp_limit_warning, cmp_key_generation>>
            /\ UNCHANGED <<iiifVars, makerVars, mapVars, classifyVars, yearVars, searchVars, findVars, analyticsVars>>

RECURSIVE AddAll(_, _)
AddAll(fav, items) ==
    IF items = <<>> THEN fav
    ELSE AddAll(DictSet(fav, Head(items), Favorite(Head(items), FALSE)), Tail(items))

RECURSIVE RemoveAll(_, _)
RemoveAll(fav, items) ==
    IF items = <<>> THEN fav ELSE RemoveAll(DictPop(fav, Head(items)), Tail(items))

\* "Add ALL on this page"
AddAllOnPage ==
    LET fav == AddAll(favorites[1], page_items) IN
    /\ open_page = "explorer"
    /\ favorites # None
    /\ favorites' = Some(fav)
    /\ fav_file' = fav
    /\ UNCHANGED <<open_page, notes, notes_file, detail_art_id, compare_candidates, cmp_limit_warning, cmp_key_generation>>
    /\ UNCHANGED <<iiifVars, makerVars, mapVars, classifyVars, yearVars, searchVars, findVars, analyticsVars>>

\* "Remove ALL on this page"
RemoveAllOnPage ==
    LET fav == RemoveAll(favorites[1], page_items) IN
    /\ open_page = "explorer"
    /\ favorites # None
    /\ favorites' = Some(fav)
    /\ fav_file' = fav
    /\ UNCHANGED <<open_page, notes, notes_file, detail_art_id, compare_candidates, cmp_limit_warning, cmp_key_generation>>
    /\ UNCHANGED <<iiifVars, makerVars, mapVars, classifyVars, yearVars, searchVars, findVars, analyticsVars>>

CompareNext ==
    \/ OpenSelection
    \/ LoadSelectionFromCode
    \/ ClearSelection
    \/ ClearComparisonMarks
    \/ MarkForComparison
    \/ RemoveCard
    \/ OpenCompare
    \/ CompareClearAll

NotesNext ==
    \/ OpenSelection
    \/ ClearSelection
    \/ ViewDetails
    \/ SaveNotes
    \/ RemoveDetail
    \/ RemoveCard
    \/ OpenExplorer
    \/ ToggleInMySelection
    \/ AddAllOnPage
    \/ RemoveAllOnPage

(***************************************************************************)
(* analytics.py within one Streamlit session, and the maintenance buttons  *)
(* of the Statistics page.                                                 *)
(*                                                                         *)
(* An event record keeps its event, page and session_id (ts and props are  *)
(* left out).  uuid.uuid4() gives a value never given before: the n-th     *)
(* call gives n.  written is the history of the session: every record that *)
(* _write_event appended, with the once_key it was tracked under, if any.  *)
(***************************************************************************)
OnceCalls ==
    { [event |-> "page_view", page |-> "Explorer", once_key |-> "page_view::Explorer"],
      [event |-> "page_view", page |-> "PDF_Setup", once_key |-> "page_view::PDF_Setup"] }

TrackCalls ==
    { [event |-> "selection_add_item", page |-> "Explorer"],
      [event |-> "note_saved", page |-> "My_Selection"] }

MaxWritten == 3

MaxUuids == 2

AnalyticsIdle ==
    /\ analytics_session_id = None
    /\ analytics_once = {}
    /\ analytics_file = <<>>
    /\ written = <<>>
    /\ uuids = 0
    /\ confirm_clear_analytics = FALSE

AnalyticsInit == AnalyticsIdle

\* _get_session_id(): the id of the session, a new uuid when none is stored
_get_session_id == IF analytics_session_id = None THEN uuids + 1 ELSE analytics_session_id[1]

\* track_event(event, page, props): the record goes to the file unless the write fails
track_event(event, page_name, once_key, write_ok) ==
    LET record == [event |-> event, page |-> page_name, session_id |-> _get_session_id] IN
    /\ analytics_session_id = None => uuids < MaxUuids
    /\ write_ok => Len(written) < MaxWritten
    /\ uuids' = IF analytics_session_id = None THEN uuids + 1 ELSE uuids
    /\ analytics_session_id' = Some(_get_session_id)
    /\ analytics_file' = IF write_ok THEN Append(analytics_file, record) ELSE analytics_file
    /\ written' = IF write_ok THEN Append(written, [once_key |-> once_key, record |-> record])
                  ELSE written

TrackEvent ==
    \E call \in TrackCalls, write_ok \in BOOLEAN :
        /\ track_event(call.event, call.page, None, write_ok)
        /\ UNCHANGED <<analytics_once, confirm_clear_analytics>>
        /\ UNCHANGED <<iiifVars, makerVars, mapVars, classifyVars, yearVars, searchVars, findVars, selectionVars>>

\* track_event_once(event, page, once_key)
track_event_once(event, page_name, once_key, write_ok) ==
    IF once_key \in analytics_once
    THEN UNCHANGED <<analytics_session_id, analytics_once, analytics_file, written, uuids>>
    ELSE /\ analytics_once' = analytics_once \cup {once_key}
         /\ track_event(event, page_name, Some(once_key), write_ok)

TrackEventOnce ==
    \E call \in OnceCalls, write_ok \in BOOLEAN :
        /\ track_event_once(call.event, call.page, call.once_key, write_ok)
        /\ UNCHANGED confirm_clear_analytics
        /\ UNCHANGED <<iiifVars, makerVars, mapVars, classifyVars, yearVars, searchVars, findVars, selectionVars>>

\* Statistics: "Clear analytics data"
ClearAnalyticsData ==
    /\ ~confirm_clear_analytics
    /\ confirm_clear_analytics' = TRUE
    /\ UNCHANGED <<analytics_session_id, analytics_once, analytics_file, written, uuids>>
    /\ UNCHANGED <<iiifVars, makerVars, mapVars, classifyVars, yearVars, searchVars, findVars, selectionVars>>

\* Statistics: "Confirm clear"; ok is what clear_analytics_events() returns
ConfirmClear ==
    \E ok \in BOOLEAN :
        /\ confirm_clear_analytics
        /\ confirm_clear_analytics' = FALSE
        /\ analytics_file' = IF ok THEN <<>> ELSE analytics_file
        /\ analytics_session_id' = IF ok THEN None ELSE analytics_session_id
        /\ analytics_once' = IF ok THEN {} ELSE analytics_once
        /\ UNCHANGED <<written, uuids>>
        /\ UNCHANGED <<iiifVars, makerVars, mapVars, classifyVars, yearVars, searchVars, findVars, selectionVars>>

AnalyticsNext == TrackEvent \/ TrackEventOnce \/ ClearAnalyticsData \/ ConfirmClear

(***************************************************************************)
(* Specifications                                                          *)
(***************************************************************************)
InitIIIF == IIIFInit /\ MakerIdle /\ MapIdle /\ ClassifyIdle /\ YearIdle /\ SearchIdle /\ FindIdle /\ SelectionIdle /\ AnalyticsIdle

SpecIIIF == InitIIIF /\ [][IIIFNext]_vars

InitMaker == MakerInit /\ IIIFIdle /\ MapIdle /\ ClassifyIdle /\ YearIdle /\ SearchIdle /\ FindIdle /\ SelectionIdle /\ AnalyticsIdle

SpecMaker == InitMaker /\ [][MakerNext]_vars

InitMap == MapInit /\ IIIFIdle /\ MakerIdle /\ ClassifyIdle /\ YearIdle /\ SearchIdle /\ FindIdle /\ SelectionIdle /\ AnalyticsIdle

SpecMap == InitMap /\ [][MapNext]_vars

InitClassify == ClassifyInit /\ IIIFIdle /\ MakerIdle /\ YearIdle /\ SearchIdle /\ FindIdle /\ SelectionIdle /\ AnalyticsIdle

SpecClassify == InitClassify /\ [][ClassifyNext]_vars

InitYear == YearInit /\ IIIFIdle /\ MakerIdle /\ MapIdle /\ ClassifyIdle /\ SearchIdle /\ FindIdle /\ SelectionIdle /\ AnalyticsIdle

SpecYear == InitYear /\ [][YearNext]_vars

InitSearch == SearchInit /\ IIIFIdle /\ MakerIdle /\ MapIdle /\ ClassifyIdle /\ YearIdle /\ FindIdle /\ SelectionIdle /\ AnalyticsIdle

SpecSearch == InitSearch /\ [][SearchNext]_vars

InitFind == FindInit /\ IIIFIdle /\ MakerIdle /\ MapIdle /\ ClassifyIdle /\ YearIdle /\ SearchIdle /\ SelectionIdle /\ AnalyticsIdle

SpecFind == InitFind /\ [][FindNext]_vars

InitCompare == CompareInit /\ IIIFIdle /\ MakerIdle /\ MapIdle /\ ClassifyIdle /\ YearIdle /\ SearchIdle /\ FindIdle /\ AnalyticsIdle

SpecCompare == InitCompare /\ [][CompareNext]_vars

InitNotes == NotesInit /\ IIIFIdle /\ MakerIdle /\ MapIdle /\ ClassifyIdle /\ YearIdle /\ SearchIdle /\ FindIdle /\ AnalyticsIdle

SpecNotes == InitNotes /\ [][NotesNext]_vars

InitAnalytics == AnalyticsInit /\ IIIFIdle /\ MakerIdle /\ MapIdle /\ ClassifyIdle /\ YearIdle /\ SearchIdle /\ FindIdle /\ SelectionIdle

SpecAnalytics == InitAnalytics /\ [][AnalyticsNext]_vars

(***************************************************************************)
(* Properties                                                              *)
(***************************************************************************)

\* the lower-cased attribution text _classify_attribution searches
Haystack(raw) == Lower(Join(_collect_attribution_texts(raw).texts))

AttributionTags == {"direct", "attributed", "workshop", "circle", "after", "unknown"}

\* C1: mapping the empty object raises nothing, fetches nothing, and returns
\* a record with title "Untitled", principal maker "Unknown artist",
\* attribution tag "unknown", no year and no image URL.
C1_EmptyRecordDefaults ==
    (mapped # None /\ raw_object = EmptyRecord) =>
        /\ ~mapped[1].raised
        /\ mapped[1].fetched = <<>>
        /\ mapped[1].record # None
        /\ LET record == mapped[1].record[1]
           IN  /\ record.title = "Untitled"
               /\ record.principalOrFirstMaker = "Unknown artist"
               /\ record._attribution = "unknown"
               /\ record.dating.year = None
               /\ record.webImage.url = None

C1_Witness ==
    /\ raw_object = EmptyRecord
    /\ mapped # None
    /\ mapped[1].record # None

\* C2: mapping never raises: whatever JSON values the fields of the raw
\* object hold, a record is returned.
C2_NeverRaises ==
    mapped # None => (~mapped[1].raised /\ mapped[1].record # None)

\* C3: normalising a normalised URL at the same width gives the same URL
\* (_normalize_iiif_image_url is idempotent).
C3_Idempotent ==
    renormalized # None => renormalized = normalized

\* C4: the normalised URL ends in full/<w>,/0/default.jpg; when the (trimmed)
\* input ends in /info.json the result is the input with exactly that suffix
\* replaced; otherwise, when the input contains /full/, the result is the
\* input with everything from its first /full/ on replaced;
\* https://x/y/info.json at 900 gives https://x/y/full/900,/0/default.jpg.
C4_NormalizedForm ==
    normalized # None =>
        LET r == normalized[1]
            u == Strip(url)
            tail == "full/" \o IntToStr(width) \o ",/0/default.jpg"
            base == Sub(r, 1, Len(r) - Len(tail) - 1)
        IN  /\ EndsWith(r, tail)
            /\ EndsWith(r, "/" \o tail)
            /\ EndsWith(u, "/info.json") => u = base \o "/info.json"
            /\ (~EndsWith(u, "/info.json") /\ Contains(u, "/full/")) =>
                    /\ StartsWith(u, base \o "/full/")
                    /\ ~Contains(Sub(u, 1, Len(base) + Len("/full/") - 1), "/full/")
            /\ (url = "https://x/y/info.json" /\ width = 900) =>
                    r = "https://x/y/full/900,/0/default.jpg"

C4_Witness ==
    /\ normalized # None
    /\ url = "https://x/y/info.json"
    /\ width = 900

\* C5: the name shown is "Unknown artist" when the trimmed, lower-cased name
\* is an unknown token (among them "unknown", "onbekend" and the empty
\* string), "anonymous" when it is "anonymous" or "anoniem", and the trimmed
\* name itself otherwise.
C5_MakerNormalization ==
    maker # None =>
        LET name == IF raw_maker = None THEN "" ELSE raw_maker[1]
            key == Lower(Strip(name))
        IN  /\ {"unknown", "onbekend", ""} \subseteq UnknownTokens
            /\ key \in UnknownTokens => maker[1] = "Unknown artist"
            /\ key \in {"anonymous", "anoniem"} => maker[1] = "anonymous"
            /\ key \notin UnknownTokens \cup {"anonymous", "anoniem"} =>
                    maker[1] = Strip(name)

C5_Witness ==
    /\ raw_maker = Some(" Onbekend")
    /\ maker = Some("Unknown artist")

\* C6: the principal maker of every returned record is non-empty and in
\* normalised form: "Unknown artist", "anonymous", or a trimmed name that is
\* neither an unknown token nor an anonymous token in any letter case.
C6_MakerNormalized ==
    (mapped # None /\ mapped[1].record # None) =>
        LET m == mapped[1].record[1].principalOrFirstMaker
            key == Lower(Strip(m))
        IN  /\ m # ""
            /\ m = Strip(m)
            /\ key \in UnknownTokens => m = "Unknown artist"
            /\ key \in AnonymousTokens => m = "anonymous"

\* C7: the attribution tag of every returned record is one of direct,
\* attributed, workshop, circle, after, unknown, and it is unknown whenever
\* the principal maker is "Unknown artist", whatever the attribution text.
C7_AttributionTag ==
    (mapped # None /\ mapped[1].record # None) =>
        LET record == mapped[1].record[1]
        IN  /\ record._attribution \in AttributionTags
            /\ record.principalOrFirstMaker = "Unknown artist" =>
                    record._attribution = "unknown"

C7_Witness ==
    /\ mapped # None
    /\ mapped[1].record # None
    /\ mapped[1].record[1].principalOrFirstMaker = "Unknown artist"
    /\ mapped[1].record[1]._attribution = "unknown"
    /\ Contains(Haystack(raw_object), "workshop of unknown artist")

\* the classifier was called for a named maker and the text was collected
Classified ==
    /\ attribution_tag # None
    /\ artist[1] # "Unknown artist"
    /\ ~_collect_attribution_texts(raw_object).raised

NameInHaystack == Contains(Haystack(raw_object), Lower(artist[1]))

\* C8: when the haystack contains the maker's name, the tag is that of the
\* first matching family in the order attributed, workshop, circle, after,
\* role-colon; a haystack with a workshop, circle or after phrase is never
\* direct; "Workshop of Rembrandt van Rijn" for Rembrandt van Rijn is workshop.
C8_FamilyPriority ==
    (Classified /\ NameInHaystack) =>
        LET h == Haystack(raw_object)
            tag == attribution_tag[1].tag
            attributed == AnyIn(AttributedPhrases, h)
            workshop == AnyIn(WorkshopPhrases, h)
            circle == AnyIn(CirclePhrases, h)
            after == AnyIn(AfterPhrases, h)
            direct == AnyIn(DirectPhrases, h)
        IN  /\ ~attribution_tag[1].raised
            /\ attributed => tag = "attributed"
            /\ (~attributed /\ workshop) => tag = "workshop"
            /\ (~attributed /\ ~workshop /\ circle) => tag = "circle"
            /\ (~attributed /\ ~workshop /\ ~circle /\ after) => tag = "after"
            /\ (~attributed /\ ~workshop /\ ~circle /\ ~after /\ direct) => tag = "direct"
            /\ (workshop \/ circle \/ after) => tag # "direct"
            /\ ( /\ raw_object = ProductionWith("Workshop of Rembrandt van Rijn", 1)
                 /\ artist[1] = "Rembrandt van Rijn" ) => tag = "workshop"

C8_Witness ==
    /\ Classified
    /\ NameInHaystack
    /\ AnyIn(WorkshopPhrases, Haystack(raw_object))
    /\ AnyIn(DirectPhrases, Haystack(raw_object))
    /\ attribution_tag[1].tag = "workshop"

\* C9: for a named maker the tag is unknown when the collected text is empty
\* or does not contain the maker's name in any letter case, even when the
\* text has an attributed, workshop, circle or after phrase.
C9_UnknownWithoutName ==
    (Classified /\ ~NameInHaystack) =>
        /\ ~attribution_tag[1].raised
        /\ attribution_tag[1].tag = "unknown"

C9_Witness ==
    /\ Classified
    /\ ~NameInHaystack
    /\ AnyIn(WorkshopPhrases, Haystack(raw_object))
    /\ attribution_tag[1].tag = "unknown"

\* C10: when the haystack contains the maker's name and no phrase of the
\* five families, the tag is attributed.
C10_DefaultAttributed ==
    ( /\ Classified
      /\ NameInHaystack
      /\ ~AnyIn(AttributedPhrases \cup WorkshopPhrases \cup CirclePhrases
                    \cup AfterPhrases \cup DirectPhrases, Haystack(raw_object)) ) =>
        attribution_tag[1].tag = "attributed"

C10_Witness ==
    /\ Classified
    /\ NameInHaystack
    /\ Haystack(raw_object) = "rembrandt van rijnoil on canvas"
    /\ attribution_tag[1].tag = "attributed"

\* C11: extract_year returns dating.year when it is an integer; otherwise
\* the integer of the first four characters of presentingDate when these are
\* four digits; otherwise nothing.
C11_ExtractYear ==
    year # None =>
        LET d == dating[1]
            y == IF IsDict(d) THEN Get(d, "year") ELSE JNull
            pd == IF IsDict(d) THEN Get(d, "presentingDate") ELSE JNull
            prefix == IF IsStr(pd) THEN Sub(pd.s, 1, 4) ELSE ""
        IN  /\ y.t = "num" => year[1] = Some(y.n)
            /\ (y.t # "num" /\ Len(prefix) = 4 /\ IsDigits(prefix)) =>
                    year[1] = Some(StrToInt(prefix))
            /\ (y.t # "num" /\ ~(Len(prefix) = 4 /\ IsDigits(prefix))) => year[1] = None
            /\ d = Obj(<<<<"year", None>>, <<"presentingDate", Some(JStr("1650-03-01"))>>>>) =>
                    year[1] = Some(1650)

\* search_artworks sorted the mapped records and returned a page
Sliced == outcome # None /\ ~outcome[1].raised /\ sort # None

YearOf(art) == art.dating.year

\* C12: with sort mode chronologic, in the sorted list no record without a
\* year comes before a record with one, and the records with a year are in
\* ascending year order, ties by lower-cased maker, then lower-cased title.
C12_ChronologicOrder ==
    (Sliced /\ NormSort(sort[1]) = "chronologic") =>
        LET o == outcome[1].ordered
        IN  \A i, j \in 1..Len(o) : i < j =>
              /\ YearOf(o[i]) = None => YearOf(o[j]) = None
              /\ (YearOf(o[i]) # None /\ YearOf(o[j]) # None) =>
                    KeyLess(<<YearOf(o[i])[1], Lower(o[i].principalOrFirstMaker), Lower(o[i].title)>>,
                            <<YearOf(o[j])[1], Lower(o[j].principalOrFirstMaker), Lower(o[j].title)>>)
                    \/ <<YearOf(o[i])[1], Lower(o[i].principalOrFirstMaker), Lower(o[i].title)>>
                        = <<YearOf(o[j])[1], Lower(o[j].principalOrFirstMaker), Lower(o[j].title)>>

\* C13: with sort mode achronologic, the sorted list is in descending year
\* order, ties by maker, then title, and every record without a year comes
\* after every record with one.
C13_AchronologicOrder ==
    (Sliced /\ NormSort(sort[1]) = "achronologic") =>
        LET o == outcome[1].ordered
        IN  \A i, j \in 1..Len(o) : i < j =>
              /\ YearOf(o[i]) = None => YearOf(o[j]) = None
              /\ (YearOf(o[i]) # None /\ YearOf(o[j]) # None) =>
                    KeyLess(<<0 - YearOf(o[i])[1], Lower(o[i].principalOrFirstMaker), Lower(o[i].title)>>,
                            <<0 - YearOf(o[j])[1], Lower(o[j].principalOrFirstMaker), Lower(o[j].title)>>)
                    \/ <<YearOf(o[i])[1], Lower(o[i].principalOrFirstMaker), Lower(o[i].title)>>
                        = <<YearOf(o[j])[1], Lower(o[j].principalOrFirstMaker), Lower(o[j].title)>>

\* ceil(total / size) pages, at least one
LastPage(total, size) ==
    LET pages == (total + size - 1) \div size IN IF pages < 1 THEN 1 ELSE pages

\* C14: the page is clamped to 1..max(1, ceil(total/page_size)): the items
\* returned are those of the clamped page, and they are not empty when
\* total > 0.
C14_PageClamped ==
    (Sliced /\ NormPageSize(page_size[1]) > 0) =>
        LET size == NormPageSize(page_size[1])
            total == outcome[1].total
            last == LastPage(total, size)
            clamped == IF page[1] < 1 THEN 1 ELSE IF page[1] > last THEN last ELSE page[1]
        IN  /\ outcome[1].items = PageItems(outcome[1].ordered, clamped, size)
            /\ total > 0 => outcome[1].items # <<>>

RECURSIVE PagesUpTo(_, _, _)
PagesUpTo(list, n, size) ==
    IF n = 0 THEN <<>> ELSE PagesUpTo(list, n - 1, size) \o PageItems(list, n, size)

\* C15: for page_size > 0 the pages 1..max(1, ceil(total/page_size)), in
\* order, make up the sorted list exactly, the page returned is the part of
\* the sorted list at its place, and total is the length of that list.
C15_PagesPartition ==
    (Sliced /\ NormPageSize(page_size[1]) > 0) =>
        LET size == NormPageSize(page_size[1])
            o == outcome[1].ordered
            last == LastPage(Len(o), size)
            p == NormPage(page[1])
        IN  /\ outcome[1].total = Len(o)
            /\ Len(o) = Len(mapped_list)
            /\ PagesUpTo(o, last, size) = o
            /\ p <= last =>
                 outcome[1].items =
                    SubSeq(o, (p - 1) * size + 1, IF p * size > Len(o) THEN Len(o) ELSE p * size)

C15_Witness ==
    /\ Sliced
    /\ page_size[1] = 2
    /\ page[1] = 1
    /\ outcome[1].total = 2
    /\ outcome[1].items = outcome[1].ordered

\* what the mapping of each fetched record gave, in the order of the loop
MapOutcomes ==
    [k \in 1..Len(map_log) |->
        _map_linked_art_to_legacy_dict(raw_objects[k], map_log[k].artist_resp,
                                       map_log[k].image_resp)]

KeptRecords ==
    LET kept == SelectSeq(MapOutcomes, LAMBDA out : ~out.raised)
    IN  [i \in 1..Len(kept) |-> kept[i].record[1]]

RaisedInMapping == Cardinality({k \in 1..Len(map_log) : MapOutcomes[k].raised})

\* C16: a record whose mapping raises is left out and nothing else changes:
\* the mapped list is the records of the other fetched records, in order;
\* the search does not raise for it; when exactly one of N raises, total is
\* N - 1.
C16_MappingFailureIsolated ==
    /\ mapped_list = KeptRecords
    /\ (outcome # None /\ outcome[1].raised) => outcome[1].cause \in {"discovery", "fetch"}
    /\ (pc = "map" /\ Len(map_log) = Len(raw_objects)) => outcome = None
    /\ (Sliced /\ RaisedInMapping = 1) => outcome[1].total = Len(raw_objects) - 1

C16_Witness ==
    /\ Sliced
    /\ Len(raw_objects) = 8
    /\ RaisedInMapping = 1
    /\ outcome[1].total = 7

\* C17: a fetch that fails (bad status, body that is not JSON, timeout or
\* other transport error) is skipped: the search does not raise, and the
\* records fetched are those of the other candidates.
C17_FetchFailureSkipped ==
    (\E i \in 1..Len(fetch_log) : FetchFailed(fetch_log[i].resp)) =>
        /\ outcome = None \/ ~outcome[1].raised
        /\ LET good == SelectSeq(fetch_log, LAMBDA e : ~FetchFailed(e.resp))
           IN  raw_objects = [i \in 1..Len(good) |-> _fetch_linked_art_json(good[i].resp).raw]

\* C18: when every discovery request was refused or found the endpoint
\* unavailable, the search returns no items and total 0, and does not raise.
C18_DiscoveryFailureEmpty ==
    ( /\ pc = "done"
      /\ asked # <<>>
      /\ \A i \in 1..Len(asked) : asked[i].resp.kind # "response" \/ ~asked[i].resp.ok ) =>
        outcome = Some(Returned(<<>>, <<>>, 0))

\* the string ids of a response body that are not blank, in order
RECURSIVE IdsIn(_)
IdsIn(items) ==
    IF items = <<>> THEN <<>>
    ELSE (IF IsDict(Head(items)) /\ IsNonBlankStr(Get(Head(items), "id"))
          THEN <<Get(Head(items), "id").s>> ELSE <<>>) \o IdsIn(Tail(items))

RECURSIVE Unique(_)
Unique(xs) ==
    IF xs = <<>> THEN <<>>
    ELSE LET front == Unique(SubSeq(xs, 1, Len(xs) - 1))
             x == xs[Len(xs)]
         IN  IF \E i \in 1..Len(front) : front[i] = x THEN front ELSE Append(front, x)

RECURSIVE AnsweredIds(_)
AnsweredIds(n) ==
    IF n = 0 THEN <<>>
    ELSE AnsweredIds(n - 1) \o IdsIn(DiscoveryItems(asked[n].resp.body[1]).xs)

\* discovery is over and did not raise
Discovered == pc \in {"fetch", "map"} \/ (pc = "done" /\ outcome[1].cause # "discovery")

\* C19: the ids are the first occurrences of the ids the fields answered, in
\* field order, at most limit of them; a field is queried only while fewer
\* than limit ids are collected; creator and title answering 5 and 5 ids
\* with 2 in common give 8 ids when limit >= 8.
C19_MergedCandidates ==
    (Discovered /\ asked # <<>>) =>
        LET limit == NormPageSize(page_size[1])
            merged == Unique(AnsweredIds(Len(asked)))
        IN  /\ Len(pids) <= (IF limit < 0 THEN 0 ELSE limit)
            /\ pids = SubSeq(merged, 1, Len(pids))
            /\ Len(pids) < limit => pids = merged
            /\ \A k \in 1..(Len(asked) - 1) : Len(Unique(AnsweredIds(k))) < limit
            /\ [i \in 1..Len(asked) |-> asked[i].field] = SubSeq(SearchFields, 1, Len(asked))
            /\ (Strip(query[1]) = "Rembrandt" /\ limit >= 8) =>
                    SubSeq(pids, 1, 8) = [n \in 1..8 |-> Pid(n)]

\* how many times x is in xs
Count(xs, x) == Cardinality({i \in 1..Len(xs) : xs[i] = x})

\* C20: each record the search produces is the mapping of one fetched record
\* with the responses to that record's own GETs, whatever else is in the
\* batch: record by record, the sorted list is the mapped records of the
\* fetched records whose mapping did not raise.
C20_RecordOfOwnInputs ==
    Sliced =>
        LET o == outcome[1].ordered
        IN  /\ mapped_list = KeptRecords
            /\ Len(o) = Len(mapped_list)
            /\ \A i \in 1..Len(o) : Count(o, o[i]) = Count(mapped_list, o[i])
            /\ \A i \in 1..Len(outcome[1].items) : Count(o, outcome[1].items[i]) > 0

C20_Witness ==
    /\ Sliced
    /\ RaisedInMapping = 1
    /\ \E k \in 1..Len(map_log) : map_log[k].artist_resp = Response(TRUE, Pages[2])
    /\ Len(outcome[1].ordered) >= 3

\* a record was mapped and the mapping did not raise
Mapped == mapped # None /\ mapped[1].record # None

\* C21: links.web is the collection URL of the object code when the code is
\* a canonical inventory code; otherwise the access-point URL without its
\* trailing fingerprint when the record has an access point; otherwise the
\* record's identifier; and it is absent only when there is none of these.
C21_WebLink ==
    Mapped =>
        LET record == mapped[1].record[1]
            web == record.links.web
            canonical == HasCanonicalPrefix(record.objectNumber)
            access_url == _extract_access_point_url(raw_object)
            pid_url == PidUrl(raw_object)
        IN  /\ canonical =>
                 web = Some("https://www.rijksmuseum.nl/en/collection/" \o record.objectNumber)
            /\ (~canonical /\ access_url # None) =>
                 /\ web = Some(_clean_object_page_url(access_url[1]))
                 /\ access_url[1] = "https://www.rijksmuseum.nl/nl/collectie/object/melkmeisje--c0ffee012345"
                        => web = Some("https://www.rijksmuseum.nl/nl/collectie/object/melkmeisje")
            /\ (~canonical /\ access_url = None) => web = pid_url
            /\ web = None => (~canonical /\ access_url = None /\ pid_url = None)

C21_Witness ==
    /\ Mapped
    /\ _extract_access_point_url(raw_object)
         = Some("https://www.rijksmuseum.nl/nl/collectie/object/melkmeisje--c0ffee012345")
    /\ PidUrl(raw_object) # None
    /\ ~HasCanonicalPrefix(mapped[1].record[1].objectNumber)
    /\ mapped[1].record[1].links.web
         = Some("https://www.rijksmuseum.nl/nl/collectie/object/melkmeisje")

\* the end of a IIIF full-image request of width w
FullImageSuffix(w) == "/full/" \o IntToStr(w) \o ",/0/default.jpg"

\* C22: the image URL of a mapped record, when there is one, ends in
\* /full/<W>,/0/default.jpg for one width W, which is the width of an image
\* found in the JSON and the width of an image found in the page alike.
C22_ImageWidthFixed ==
    (Mapped /\ mapped[1].record[1].webImage.url # None) =>
        \A W \in {JsonImageWidth, HtmlImageWidth} :
            EndsWith(mapped[1].record[1].webImage.url[1], FullImageSuffix(W))

\* the URLs of the GETs the call made, in order
FetchedUrls == [i \in 1..Len(mapped[1].fetched) |-> mapped[1].fetched[i].url]

\* the public URL of the record (stable_web_url), None when it has none
PublicUrl(raw) ==
    LET pid_url == PidUrl(raw)
        access_url == _extract_access_point_url(raw)
        public_url == IF access_url = None THEN None
                      ELSE Some(_clean_object_page_url(access_url[1]))
    IN  StableWebUrl(ObjectNumber(pid_url, public_url, OrEmptyList(Get(raw, "identified_by"))),
                     public_url, pid_url)

\* C23: one call GETs the artist page only when the JSON gave no maker and
\* the record has a public URL, and the image page only when the JSON deep
\* search found no image and the record has an access point, each at most
\* once, the artist page first; a record whose maker and image both come
\* from the JSON causes no GET.
C23_FallbackOnlyWhenNeeded ==
    mapped # None =>
        LET maker_in_json == _extract_principal_maker(raw_object) # "Unknown artist"
            image_in_json == _deep_find_iiif_image_url(raw_object) # None
            web == PublicUrl(raw_object)
            access_url == _extract_access_point_url(raw_object)
            artist_gets == IF maker_in_json \/ web = None THEN <<>> ELSE <<web[1]>>
            image_gets == IF image_in_json \/ access_url = None THEN <<>> ELSE <<access_url[1]>>
        IN  /\ FetchedUrls = artist_gets \o image_gets
            /\ (maker_in_json /\ image_in_json) => mapped[1].fetched = <<>>

C23_Witness ==
    /\ Mapped
    /\ mapped[1].record[1].principalOrFirstMaker = "Johannes Vermeer"
    /\ mapped[1].record[1].webImage.url = Some("https://iiif.rijksmuseum.nl/abc/full/600,/0/default.jpg")
    /\ _extract_access_point_url(raw_object) # None
    /\ mapped[1].record[1].links.web # None
    /\ mapped[1].fetched = <<>>

\* C24: one call never GETs the same URL twice: the image fallback does not
\* GET again the page the artist fallback already fetched.
C24_NoPageFetchedTwice ==
    mapped # None =>
        \A i, j \in 1..Len(FetchedUrls) : i < j => FetchedUrls[i] # FetchedUrls[j]

\* the GET raised (timeout, transport error) or the status is not a success
GetUnsuccessful(resp) == resp.kind = "error" \/ (resp.kind = "response" /\ ~resp.ok)

\* the responses to the artist page GET and to the image page GET of the
\* call, NoGet for a GET the call did not make
ArtistResponse ==
    IF _extract_principal_maker(raw_object) = "Unknown artist" /\ PublicUrl(raw_object) # None
    THEN mapped[1].fetched[1].resp ELSE NoGet

ImageResponse ==
    IF ImagePage(raw_object) # None
    THEN mapped[1].fetched[Len(mapped[1].fetched)].resp ELSE NoGet

\* C25: a fallback GET that fails (transport error, timeout, bad status) or
\* gives a page without the datum leaves its field at the default (maker
\* "Unknown artist", no image URL), does not make the call raise, and leaves
\* every other field as it is without that fallback: the call ends as the
\* same call ends when the failed GETs are not made at all.
C25_FallbackFailureHarmless ==
    mapped # None =>
        LET artist_failed ==
                \/ GetUnsuccessful(ArtistResponse)
                \/ /\ ArtistResponse.kind = "response"
                   /\ _extract_artist_from_object_html(ArtistResponse.text) = None
            image_failed ==
                \/ GetUnsuccessful(ImageResponse)
                \/ /\ ImageResponse.kind = "response"
                   /\ _extract_iiif_from_html(ImageResponse.text) = None
            without == _map_linked_art_to_legacy_dict(raw_object,
                            IF artist_failed THEN NoGet ELSE ArtistResponse,
                            IF image_failed THEN NoGet ELSE ImageResponse)
        IN  /\ mapped[1].raised = without.raised
            /\ Mapped =>
                LET record == mapped[1].record[1]
                IN  /\ artist_failed => record.principalOrFirstMaker = "Unknown artist"
                    /\ image_failed => record.webImage.url = None
                    /\ record = without.record[1]

C25_Witness ==
    /\ Mapped
    /\ ArtistResponse = GetFailed
    /\ ImageResponse = Response(FALSE, Pages[2])
    /\ mapped[1].record[1].principalOrFirstMaker = "Unknown artist"
    /\ mapped[1].record[1].webImage.url = None
    /\ mapped[1].record[1].title = "The Milkmaid"

\* the first inventory code of a canonical prefix in a path segment after
\* /object/, None when the URL holds none
CanonicalCodeIn(u) ==
    LET lead == "/object/"
        hits == {p \in 1..Len(u) :
                    /\ Sub(u, p, p + Len(lead) - 1) = lead
                    /\ HasCanonicalPrefix(Sub(u, p + Len(lead), Len(u)))
                    /\ CodeLengths(u, p + Len(lead) + 3) # {}}
    IN  IF hits = {} THEN None
        ELSE LET p == Min(hits) + Len(lead)
             IN  Some(Sub(u, p, p + 2 + Min(CodeLengths(u, p + 3))))

\* C27: the object code is the canonical inventory code in the access-point
\* URL when the URL holds one, of whatever canonical prefix and whatever
\* identified_by holds; otherwise the first identified_by content that starts
\* with a canonical prefix; otherwise the record's identifier.
C27_ObjectCode ==
    Mapped =>
        LET access_url == _extract_access_point_url(raw_object)
            in_url == IF access_url = None THEN None ELSE CanonicalCodeIn(access_url[1])
            identified_by == OrEmptyList(Get(raw_object, "identified_by"))
            in_ids == IF IsList(identified_by)
                      THEN FirstContent(identified_by.xs, HasCanonicalPrefix) ELSE None
            pid_url == PidUrl(raw_object)
            code == mapped[1].record[1].objectNumber
        IN  /\ in_url # None => code = in_url[1]
            /\ (in_url = None /\ in_ids # None) => code = in_ids[1]
            /\ (in_url = None /\ in_ids = None /\ pid_url # None) => code = pid_url[1]

\* the text ends in a raster-image extension, whatever the case
EndsInRasterExtension(u) ==
    \E ext \in {".jpg", ".jpeg", ".png", ".webp", ".tif", ".tiff"} : EndsWith(Lower(u), ext)

\* the text holds the IIIF marker and the institution token, whatever the case
HasIIIFMarker(u) == Contains(Lower(u), "iiif") /\ Contains(Lower(u), "rijksmuseum")

\* C26: _deep_find_iiif_image_url returns the first string, in document
\* order, that starts with http and ends in a raster-image extension; when
\* there is none, the first that holds both "iiif" and "rijksmuseum"; when
\* there is none either, nothing.  An extension match wins over an
\* IIIF-looking URL that comes before it.
C26_ExtensionBeforeIIIF ==
    image_found # None =>
        LET urls == SelectSeq(image_strings[1], LAMBDA u : StartsWith(u, "http"))
            by_ext == {i \in 1..Len(urls) : EndsInRasterExtension(urls[i])}
            by_iiif == {i \in 1..Len(urls) : HasIIIFMarker(urls[i])}
            found == image_found[1]
        IN  /\ by_ext # {} => found = Some(urls[Min(by_ext)])
            /\ (by_ext = {} /\ by_iiif # {}) => found = Some(urls[Min(by_iiif)])
            /\ (by_ext = {} /\ by_iiif = {}) => found = None
            /\ image_strings[1] = <<"https://iiif.rijksmuseum.nl/abc/info.json",
                                    "https://lh3.ggpht.com/abc.JPG">>
                    => found = Some("https://lh3.ggpht.com/abc.JPG")

C26_Witness ==
    /\ image_found = Some(Some("https://lh3.ggpht.com/abc.JPG"))
    /\ image_strings = Some(<<"https://id.rijksmuseum.nl/200108369",
                              "https://iiif.rijksmuseum.nl/abc/info.json",
                              "https://lh3.ggpht.com/abc.JPG">>)

\* the artworks of the session's selection that carry the flag
Candidates == get_compare_candidates_from_favorites(Loaded(favorites, fav_file))

\* a request to mark an artwork when four are marked already
MarkAFifth ==
    /\ Len(Candidates) >= MAX_CANDIDATES
    /\ \E obj_num \in ObjectIds, group_by_artist \in BOOLEAN :
           handle_compare_logic(obj_num, TRUE, group_by_artist)

\* C28: whenever a run of My Selection has ended (the page waits for the user),
\* at most 4 favorites carry the _compare_candidate flag, whatever marks,
\* unmarks, removals, clears and imports came before; and a request to mark
\* one more artwork while 4 are marked leaves the flag of every favorite as
\* it was.
C28_AtMostFourCandidates ==
    /\ [](open_page = "selection" => Len(Candidates) <= MAX_CANDIDATES)
    /\ [][MarkAFifth => Flags(favorites'[1]) = Flags(favorites[1])]_vars

\* five favorites were imported all flagged, the first four kept the flag, and
\* the request to mark the fifth was turned down with the warning
C28_Witness ==
    /\ open_page = "selection"
    /\ favorites = Some(Selection(ObjectNumbers, {"SK-A-1", "SK-A-2", "SK-A-3", "SK-A-4"}))
    /\ fav_file = favorites[1]
    /\ cmp_limit_warning
    /\ cmp_key_generation = 1

\* the object ids that have a saved research note with some text
NotedIds ==
    LET nts == Loaded(notes, notes_file)
    IN  {nts[i][1] : i \in {j \in 1..Len(nts) : has_note_text(nts, nts[j][1])}}

\* C29: whatever was added, removed, added or removed in bulk and cleared on
\* the Explorer and on My Selection, every object id that has a saved research
\* note is a key of the favorites selection.
C29_NotedAreFavorites ==
    \A obj_num \in NotedIds : DictHas(Loaded(favorites, fav_file), obj_num)

\* the records of the session written under the once_key k
WrittenOnce(k) == {i \in 1..Len(written) : written[i].once_key = Some(k)}

\* C30: within one session, whatever track_event_once calls, other events and
\* clears of the analytics file there were, at most one event was written per
\* once_key and all events written carry the same session_id.
C30_OncePerKeyOneSession ==
    /\ \A call \in OnceCalls : Cardinality(WrittenOnce(call.once_key)) <= 1
    /\ \A i, j \in 1..Len(written) : written[i].record.session_id = written[j].record.session_id
====
